---------------------------- MODULE Spec2Model ----------------------------
(***************************************************************************)
(* Model of the freewriting-cleanup plugin: the cleanup call               *)
(* (CleanupService.cleanupText -> AnthropicClient.cleanupText ->           *)
(* makeRequestWithRetry -> makeRequest, then extractTextFromResponse and   *)
(* parseStructuredResponse, and formatCleanupResult on its result), and    *)
(* the model cache (ModelService: getAvailableModels, refreshModels, the   *)
(* cache with its 24-hour TTL and the throttled failure notice).           *)
(*                                                                         *)
(* Specifications: Spec is the cleanup call, SpecParse the parser and the  *)
(* formatter on every provider output, SpecModels the model cache.         *)
(*                                                                         *)
(* Strings are modelled by what the code reads of them:                    *)
(*  - the selected text by its length and whether it is blank after trim;  *)
(*  - the API key, prompts and provider output as sequences of tokens.     *)
(*    In provider output the token "S" stands for the literal              *)
(*    ===CLEANED TEXT===, "E" for ===END CLEANED TEXT===, "CS" for         *)
(*    ===COMMENTARY===, "CE" for ===END COMMENTARY===, "w" for one         *)
(*    whitespace character and "a" for one other character.  No marker     *)
(*    can arise across the boundary of two such tokens, so searching the   *)
(*    token sequence is searching the string.                              *)
(*  - an error message as the sequence of the pieces the code's template   *)
(*    literal concatenates.                                                *)
(***************************************************************************)
EXTENDS Integers, Sequences, FiniteSets, TLC

VARIABLES
    apiKey,      \* AnthropicClient.apiKey
    pc,          \* position of the cleanup call: idle, request, sleep, done
    text,        \* argument text of the call
    settings,    \* argument settings of the call, as far as the call reads it
    request,     \* the AnthropicRequest built by AnthropicClient.cleanupText
    attempt,     \* loop variable of makeRequestWithRetry
    lastError,   \* lastError.message of makeRequestWithRetry
    log,         \* every request sent, response received and sleep, in order
    response,    \* the 2xx response body the call received (content list)
    outcome,     \* what the call returned or threw
    parseIn,     \* arguments of a direct parseStructuredResponse application
    parseOut,    \* its result
    now,         \* Date.now(), in milliseconds
    modelCache,  \* ModelService.modelCache: <<>> for null, else <<cache>>
    lastErrorNoticeTime,  \* ModelService.lastErrorNoticeTime
    pending,     \* model-list calls suspended at await fetchModels(), oldest first
    returned,    \* what the model-list call that just completed returned
    lastFetch,   \* data and time of the last successful live fetch
    notices,     \* time between the last two fetch-failure notices shown
    previous,    \* the list getAvailableModels returned just before, if nothing
                 \* has happened since
    selectedModel,  \* settings.model
    saved,       \* what saveData was last called with, <<>> before its
                 \* first call: the key, the selected model, the model cache
    settingsKey,     \* settings.apiKey
    availableModels, \* the list of the settings tab
    modelDropdown,   \* <<>> while the tab has no dropdown, else <<the
                     \* dropdown>>: its options, the value it shows and
                     \* whether it is disabled
    saves,       \* the calls of saveSettings suspended at await saveData,
                 \* with what their handlers do after it
    cmd,         \* position of CleanupCommand.execute: idle, awaiting,
                 \* returned, threw
    doc,         \* what execute has inserted into the document
    shown,       \* the notices execute has shown, the loading notice aside
    logged,      \* number of console.error calls of execute
    loading,     \* the loading notice: none, shown, hidden
    test,        \* the connection test: its position and what it returned
    header       \* x-api-key of the cleanup request in flight: <<key>>, or
                 \* <<>> when no request is in flight

cleanupVars == <<apiKey, pc, text, settings, request, attempt, lastError, log,
                 response, outcome, parseIn, parseOut, header>>

modelVars == <<now, modelCache, lastErrorNoticeTime, pending, returned,
               lastFetch, notices, previous>>

tabVars == <<selectedModel, saved, settingsKey, availableModels,
            modelDropdown, saves>>

cmdVars == <<cmd, doc, shown, logged, loading>>

uiVars == <<cmdVars, test>>

vars == <<cleanupVars, modelVars, tabVars, uiVars>>

-----------------------------------------------------------------------------
(* Program constants *)

MAX_RETRIES == 3

RETRY_DELAY_BASE == 1000

\* variant: the limit typed with one zero too many
MAX_CHARACTERS_extraZero == 680000 * 10

MAX_CHARACTERS == 680000

(* Bounds of the model *)

\* most content blocks in a response of the call flow
MaxContent == 2

\* longest provider output (in tokens) handed to the parser directly
MaxParseLen == 6

\* most model-list calls suspended at their request at the same time
MaxInFlight == 2

\* most operations of the settings tab suspended at an await at the same
\* time, at saveData or at the request of a model-list call
MaxAwaits == 1

-----------------------------------------------------------------------------
(* Strings *)

SeqsUpTo(A, n) == UNION {[1..k -> A] : k \in 0..n}

Tokens == {"S", "E", "CS", "CE", "w", "a"}

RECURSIVE TrimStart(_)
TrimStart(s) ==
    IF s # <<>> /\ Head(s) = "w" THEN TrimStart(Tail(s)) ELSE s

RECURSIVE TrimEnd(_)
TrimEnd(s) ==
    IF s # <<>> /\ s[Len(s)] = "w" THEN TrimEnd(SubSeq(s, 1, Len(s) - 1)) ELSE s

\* String.prototype.trim
Trim(s) == TrimEnd(TrimStart(s))

\* position of the first tok at or after position from, 0 when there is none
IndexFrom(s, tok, from) ==
    LET hits == {i \in from..Len(s) : s[i] = tok}
    IN  IF hits = {} THEN 0 ELSE CHOOSE i \in hits : \A j \in hits : i <= j

\* variant: a greedy group, /open([\s\S]*)close/, runs to the last close
MatchBetween_greedy(s, open, close) ==
    LET i == IndexFrom(s, open, 1)
        later == {j \in (i + 1)..Len(s) : s[j] = close}
        j == IF i = 0 \/ later = {} THEN 0
             ELSE CHOOSE m \in later : \A n \in later : n <= m
    IN  IF i = 0 \/ j = 0 THEN <<>> ELSE <<SubSeq(s, i + 1, j - 1)>>

\* String.prototype.match(/open([\s\S]*?)close/): the capture group as a
\* one-element sequence, or <<>> when there is no match
MatchBetween(s, open, close) ==
    LET i == IndexFrom(s, open, 1)
        j == IF i = 0 THEN 0 ELSE IndexFrom(s, close, i + 1)
    IN  IF i = 0 \/ j = 0 THEN <<>> ELSE <<SubSeq(s, i + 1, j - 1)>>

-----------------------------------------------------------------------------
(* Errors *)

Err(name, message) == [name |-> name, message |-> message]

\* the text of one decimal digit
DigitText(d) ==
    CASE d = 0 -> "0" [] d = 1 -> "1" [] d = 2 -> "2" [] d = 3 -> "3"
      [] d = 4 -> "4" [] d = 5 -> "5" [] d = 6 -> "6" [] d = 7 -> "7"
      [] d = 8 -> "8" [] d = 9 -> "9"

\* ${response.status}: the decimal digits of the status, most significant
\* first, as the pieces of the message
RECURSIVE StatusText(_)
StatusText(st) ==
    IF st < 10
    THEN <<DigitText(st)>>
    ELSE StatusText(st \div 10) \o <<DigitText(st % 10)>>

MsgNoText == <<"No text selected for cleanup">>
MsgKeyNotConfigured == <<"API key is not configured. Please check your plugin settings.">>
MsgSelectedTooLong == <<"Selected text is too long (", "text.length", " characters). Maximum allowed: ", "680000", " characters.">>
MsgKeyRequired == <<"API key is required">>
MsgTextTooLong == <<"Text too long. Maximum ", "680000", " characters allowed.">>
\* response.text of a non-2xx response: empty, or a text of the provider or
\* of a proxy, which may hold a phrase the command looks for
Bodies == {"", "invalid API key provided", "upstream sent header too long"}

\* `API request failed (${response.status}): ${response.text || 'Unknown error'}`
MsgRequestFailed(st, body) ==
    <<"API request failed (">> \o StatusText(st)
        \o <<"): ", IF body = "" THEN "Unknown error" ELSE body>>

\* what requestUrl rejects with when the request gets no response: an
\* Error with its own message, or a value that is not an Error (a string,
\* undefined)
TransportError == [kind |-> "Error", message |-> <<"net::ERR_CONNECTION_REFUSED">>]
Rejections ==
    {TransportError, [kind |-> "string", value |-> "timeout"],
     [kind |-> "undefined"]}

\* String(error) of a rejection value that is not an Error
StringOf(error) ==
    IF error.kind = "undefined" THEN "undefined" ELSE error.value

\* the catch block of makeRequest: an Error is thrown on as it is, any
\* other value is wrapped
MsgTransport(error) ==
    IF error.kind = "Error"
    THEN error.message
    ELSE <<"Network request failed: ", StringOf(error)>>
\* the message of the SyntaxError JSON.parse throws for the text <html>
MsgNotJson == <<"Unexpected token '<', \"<html>\" is not valid JSON">>
MsgFailedAfter(last) == <<"Failed after ", "3", " attempts. Last error: ">> \o last
MsgInvalidFormat == <<"Invalid response format: Could not find cleaned text section">>
MsgEmptyCleaned == <<"Empty cleaned text received">>
MsgNoContent == <<"No content received from API">>
MsgEmptyResponse == <<"Empty response from API">>

NoOutcome ==
    [kind |-> "none", name |-> "", message |-> <<>>,
     cleanedText |-> <<>>, commentary |-> <<>>]

Thrown(e) ==
    [kind |-> "error", name |-> e.name, message |-> e.message,
     cleanedText |-> <<>>, commentary |-> <<>>]

Returned(r) ==
    [kind |-> "result", name |-> "", message |-> <<>>,
     cleanedText |-> r.cleanedText, commentary |-> r.commentary]

-----------------------------------------------------------------------------
(* AnthropicClient *)

\* variant: the key is tested for presence only, without trim
validateApiKey_noTrim(key) == key # <<>>

\* validateApiKey: the key exists and has non-whitespace content
validateApiKey(key) == key # <<>> /\ Len(Trim(key)) > 0

\* variant: an expected commentary section that is missing is an error
parseStructuredResponse_commentaryRequired(responseText, expectCommentary) ==
    LET cleanedTextMatch == MatchBetween(responseText, "S", "E")
        commentaryMatch  == MatchBetween(responseText, "CS", "CE")
    IN  IF cleanedTextMatch = <<>> \/ (expectCommentary /\ commentaryMatch = <<>>)
        THEN [ok |-> FALSE, message |-> MsgInvalidFormat,
              cleanedText |-> <<>>, commentary |-> <<>>]
        ELSE IF Trim(cleanedTextMatch[1]) = <<>>
        THEN [ok |-> FALSE, message |-> MsgEmptyCleaned,
              cleanedText |-> <<>>, commentary |-> <<>>]
        ELSE [ok |-> TRUE, message |-> <<>>,
              cleanedText |-> Trim(cleanedTextMatch[1]),
              commentary |->
                  IF expectCommentary
                  THEN <<Trim(commentaryMatch[1])>> ELSE <<>>]

\* variant: the commentary section is parsed whether or not it was asked for
parseStructuredResponse_ignoresFlag(responseText, expectCommentary) ==
    LET cleanedTextMatch == MatchBetween(responseText, "S", "E")
        commentaryMatch  == MatchBetween(responseText, "CS", "CE")
    IN  IF cleanedTextMatch = <<>>
        THEN [ok |-> FALSE, message |-> MsgInvalidFormat,
              cleanedText |-> <<>>, commentary |-> <<>>]
        ELSE IF Trim(cleanedTextMatch[1]) = <<>>
        THEN [ok |-> FALSE, message |-> MsgEmptyCleaned,
              cleanedText |-> <<>>, commentary |-> <<>>]
        ELSE [ok |-> TRUE, message |-> <<>>,
              cleanedText |-> Trim(cleanedTextMatch[1]),
              commentary |->
                  IF commentaryMatch # <<>>
                  THEN <<Trim(commentaryMatch[1])>> ELSE <<>>]

\* parseStructuredResponse: ok = FALSE stands for the thrown Error.  The
\* optional commentary is <<>> when undefined, <<c>> when set.
parseStructuredResponse(responseText, expectCommentary) ==
    LET cleanedTextMatch == MatchBetween(responseText, "S", "E")
        commentaryMatch  == MatchBetween(responseText, "CS", "CE")
    IN  IF cleanedTextMatch = <<>>
        THEN [ok |-> FALSE, message |-> MsgInvalidFormat,
              cleanedText |-> <<>>, commentary |-> <<>>]
        ELSE IF Trim(cleanedTextMatch[1]) = <<>>
        THEN [ok |-> FALSE, message |-> MsgEmptyCleaned,
              cleanedText |-> <<>>, commentary |-> <<>>]
        ELSE [ok |-> TRUE, message |-> <<>>,
              cleanedText |-> Trim(cleanedTextMatch[1]),
              commentary |->
                  IF expectCommentary /\ commentaryMatch # <<>>
                  THEN <<Trim(commentaryMatch[1])>> ELSE <<>>]

\* extractTextFromResponse: the trimmed text of the first content block
extractTextFromResponse(content) ==
    IF Len(content) = 0
    THEN [ok |-> FALSE, message |-> MsgNoContent, text |-> <<>>]
    ELSE IF Len(Trim(content[1])) = 0
    THEN [ok |-> FALSE, message |-> MsgEmptyResponse, text |-> <<>>]
    ELSE [ok |-> TRUE, message |-> <<>>, text |-> Trim(content[1])]

\* the commentary instruction AnthropicClient.cleanupText puts in the system
\* prompt; COMMENTARY_PRESETS has no entry for 'custom'
commentaryPrompt(s) ==
    IF ~s.enableCommentary THEN <<>>
    ELSE IF s.commentaryStyle = "custom" /\ s.customCommentaryPrompt # <<>>
    THEN s.customCommentaryPrompt
    ELSE IF s.commentaryStyle = "custom" THEN <<"undefined">>
    ELSE <<"COMMENTARY_PRESETS", s.commentaryStyle>>

buildRequest(s) ==
    [enableCommentary |-> s.enableCommentary,
     commentaryPrompt |-> commentaryPrompt(s)]

NoRequest == [enableCommentary |-> FALSE, commentaryPrompt |-> <<>>]

\* the checks at the head of AnthropicClient.cleanupText: the error thrown
\* as a one-element sequence, <<>> when the call goes on to the network
clientChecks(key, t) ==
    IF key = <<>> THEN <<Err("Error", MsgKeyRequired)>>
    ELSE IF t.len > MAX_CHARACTERS THEN <<Err("Error", MsgTextTooLong)>>
    ELSE <<>>

\* the checks at the head of CleanupService.cleanupText
serviceChecks(key, t) ==
    IF t.len = 0 \/ t.blank THEN <<Err("Error", MsgNoText)>>
    ELSE IF ~validateApiKey(key) THEN <<Err("ApiKeyError", MsgKeyNotConfigured)>>
    ELSE IF t.len > MAX_CHARACTERS THEN <<Err("TextTooLongError", MsgSelectedTooLong)>>
    ELSE <<>>

\* every check a call passes before makeRequestWithRetry is entered:
\* CleanupService.cleanupText runs its own and then calls the client
entryChecks(key, t) ==
    IF serviceChecks(key, t) # <<>>
    THEN serviceChecks(key, t)
    ELSE clientChecks(key, t)

\* ANTHROPIC_LIMITS.MAX_TOKENS
MAX_TOKENS == 200000

\* the largest power of two that is at most k (k itself below 2)
RECURSIVE HighBit(_)
HighBit(k) == IF k < 2 THEN k ELSE 2 * HighBit(k \div 2)

\* CleanupService.estimateTokenCount of a text of len characters: a token
\* for every 4 characters, rounded up, times 1.1, rounded up.  The product
\* is a double: the double nearest to 1.1 lies 0.4 * 2^-52 above it, so
\* where 1.1 * base is a whole number k the product is rounded to the next
\* double above k when k * 4/11 is more than half of k's highest bit, and
\* Math.ceil then gives k + 1
estimateTokenCount(len) ==
    LET base == (len + 3) \div 4
        k == ((base * 11) + 9) \div 10
    IN  IF base > 0 /\ base % 10 = 0 /\ 8 * k > 11 * HighBit(k)
        THEN k + 1
        ELSE k

MsgApiKeyNotice == <<"API key error. Please check your settings.">>
MsgNoSelection == <<"No text selected">>
MsgSelectionTooLong ==
    <<"Text too long: ", "characterCount", " characters (max: ", "680,000", ")">>
MsgTooManyTokens ==
    <<"Text too long: ~", "estimatedTokenCount", " tokens (max: ", "200,000", ")">>

\* CleanupCommand.validateSelection: the error of a selection that is not
\* valid as a one-element sequence, <<>> for a valid selection
validateSelection(t) ==
    IF t.len = 0 \/ t.blank THEN <<MsgNoSelection>>
    ELSE IF t.len > MAX_CHARACTERS THEN <<MsgSelectionTooLong>>
    ELSE IF estimateTokenCount(t.len) > MAX_TOKENS THEN <<MsgTooManyTokens>>
    ELSE <<>>

\* a notice execute shows: an error notice or the success notice
Notice(kind, message) == [kind |-> kind, message |-> message]

\* the text of the notice the catch block of execute shows for an error
noticeFor(e) ==
    IF e.name = "ApiKeyError"
    THEN MsgApiKeyNotice
    ELSE IF e.name = "TextTooLongError" THEN e.message
    ELSE <<"Cleanup failed: ">> \o e.message

\* variant: the exponent is the attempt number, not attempt - 1
retryDelay_offByOne(n) == RETRY_DELAY_BASE * (2 ^ n)

\* the delay makeRequestWithRetry sleeps after a failed attempt
retryDelay(n) == RETRY_DELAY_BASE * (2 ^ (n - 1))

\* error of makeRequest for no response (status 0, body is then the value
\* requestUrl rejected with), for a 2xx response whose body response.json
\* cannot parse, or for a non-2xx status
makeRequestError(st, body) ==
    IF st = 0 THEN MsgTransport(body)
    ELSE IF st = 200 THEN MsgNotJson
    ELSE MsgRequestFailed(st, body)

-----------------------------------------------------------------------------
(* Inputs *)

Keys == {<<>>, <<"w">>, <<"k">>}

\* the character ceiling of the input text
CharacterCeiling == 680000

TextLens == {0, CharacterCeiling, CharacterCeiling + 1}

Texts == {t \in [len : TextLens, blank : BOOLEAN] : t.len = 0 => t.blank}

Styles == {"brief", "custom"}

Prompts == {<<>>, <<"p">>}

Settings ==
    [enableCommentary : BOOLEAN, commentaryStyle : Styles,
     customCommentaryPrompt : Prompts]

NoSettings ==
    [enableCommentary |-> FALSE, commentaryStyle |-> "brief",
     customCommentaryPrompt |-> <<>>]

NoText == [len |-> 0, blank |-> TRUE]

\* the settings of a call as far as the call reads them: the client looks
\* at the style and at the custom prompt only when commentary is enabled
settingsRead(s) == IF s.enableCommentary THEN s ELSE NoSettings

\* statuses of a failed attempt; 0 is a request that got no response, 200
\* a 2xx response whose body is not JSON, which makes response.json throw
\* inside makeRequest
FailStatuses == {0, 200, 401, 403, 429, 500, 503}

\* what a failure can carry: a request without a response carries the
\* value requestUrl rejected with, and the 2xx body that is not JSON is the
\* text <html>
BodiesOf(st) ==
    IF st = 0 THEN Rejections ELSE IF st = 200 THEN {"<html>"} ELSE Bodies

\* texts of a content block of a 2xx response: empty, blank, prose without
\* markers, the halves of a section that spans two blocks, a blank
\* section, a section inside prose, and a section followed by commentary
BlockTexts ==
    {<<>>, <<"w">>, <<"a">>,
     <<"S", "a">>, <<"E">>,
     <<"S", "w", "E">>,
     <<"a", "S", "w", "a", "E", "a">>,
     <<"S", "a", "E", "CS", "w", "a", "CE">>}

\* texts of the content blocks after the first, which the client does not
\* read: prose, and the second half of a section
TailBlocks == {<<"a">>, <<"E">>}

\* content lists of a 2xx response: at most MaxContent text blocks
Contents ==
    {<<>>} \cup {<<b>> \o rest : b \in BlockTexts,
                                rest \in SeqsUpTo(TailBlocks, MaxContent - 1)}

Event(ev, n, v) == [ev |-> ev, n |-> n, v |-> v]

\* arguments of parseStructuredResponse
ParseInputs ==
    [responseText : SeqsUpTo(Tokens, MaxParseLen), expectCommentary : BOOLEAN]

NoParseIn == [responseText |-> <<>>, expectCommentary |-> FALSE]

-----------------------------------------------------------------------------
(* CleanupService.formatCleanupResult *)

\* variant: the commentary section is appended whenever the field is set,
\* the empty string included
formatCleanupResult_definedOnly(result) ==
    LET formatted ==
            <<"\n\n---\n\n", "AI Cleanup:", "\n\n">> \o result.cleanedText
    IN  IF result.commentary # <<>>
        THEN formatted \o <<"\n\n---\n\n", "AI Commentary:", "\n\n">>
                       \o result.commentary[1]
        ELSE formatted

\* formatCleanupResult: the pieces of the two template literals around the
\* texts of the result.  if (result.commentary) is false for undefined and
\* for the empty string.
formatCleanupResult(result) ==
    LET formatted ==
            <<"\n\n---\n\n", "AI Cleanup:", "\n\n">> \o result.cleanedText
    IN  IF result.commentary # <<>> /\ result.commentary[1] # <<>>
        THEN formatted \o <<"\n\n---\n\n", "AI Commentary:", "\n\n">>
                       \o result.commentary[1]
        ELSE formatted

-----------------------------------------------------------------------------
(* ModelService: constants and helpers *)

CACHE_TTL_MS == 24 * 60 * 60 * 1000

ERROR_NOTICE_THROTTLE_MS == 60 * 1000

ANTHROPIC_MODELS ==
    <<"claude-opus-4-1-20250805", "claude-opus-4-20250514",
      "claude-sonnet-4-20250514", "claude-3-7-sonnet-latest",
      "claude-3-5-haiku-latest", "claude-3-haiku-20240307">>

\* position of a display name in the order of String.prototype.localeCompare,
\* for the display names of this model
CollationRank(name) ==
    CASE name = "Claude Haiku 3.5"          -> 1
      [] name = "Claude Opus 4.1"           -> 2
      [] name = "Claude Sonnet 4"           -> 3
      [] name = "claude-3-5-haiku-latest"   -> 4
      [] name = "claude-3-7-sonnet-latest"  -> 5
      [] name = "claude-3-haiku-20240307"   -> 6
      [] name = "claude-opus-4-1-20250805"  -> 7
      [] name = "claude-opus-4-20250514"    -> 8
      [] name = "claude-sonnet-4-20250514"  -> 9
      [] OTHER                              -> 10

localeCompare(a, b) == CollationRank(a) - CollationRank(b)

\* Array.prototype.sort with the comparator of formatModels: stable
RECURSIVE SortByDisplayName(_)
SortByDisplayName(opts) ==
    IF opts = <<>> THEN <<>>
    ELSE LET front == SortByDisplayName(SubSeq(opts, 1, Len(opts) - 1))
             last  == opts[Len(opts)]
             k     == Cardinality({i \in 1..Len(front) :
                          localeCompare(front[i].displayName,
                                        last.displayName) <= 0})
         IN  SubSeq(front, 1, k) \o <<last>> \o SubSeq(front, k + 1, Len(front))

ModelInfo(id, display_name, created_at) ==
    [id |-> id, display_name |-> display_name, created_at |-> created_at,
     type |-> "model"]

toModelInfo(opt) == ModelInfo(opt.id, opt.displayName, "")

\* formatModels: id and display name of every entry, sorted by display name
formatModels(models) ==
    SortByDisplayName(
        [i \in 1..Len(models) |->
            [id |-> models[i].id, displayName |-> models[i].display_name]])

\* getFallbackModels: ANTHROPIC_MODELS in their order, id as display name
getFallbackModels ==
    [i \in 1..Len(ANTHROPIC_MODELS) |->
        [id |-> ANTHROPIC_MODELS[i], displayName |-> ANTHROPIC_MODELS[i]]]

\* variant: the cache counts as valid up to and including the age of 24 hours
isCacheValid_inclusive(cache, t) ==
    IF cache = <<>> THEN FALSE
    ELSE t - cache[1].fetchedAt <= CACHE_TTL_MS

\* isCacheValid at the time t
isCacheValid(cache, t) ==
    IF cache = <<>> THEN FALSE
    ELSE t - cache[1].fetchedAt < CACHE_TTL_MS

\* updateCache at the time t
updateCache(models, t) == <<[models |-> models, fetchedAt |-> t]>>

\* the cache cacheFallbackModels leaves at the time t
fallbackCache(t) ==
    updateCache([i \in 1..Len(getFallbackModels) |->
                    toModelInfo(getFallbackModels[i])], t)

\* variant: a notice is shown when 60 s or more have passed
noticeDue_inclusive(t, last) == t - last >= ERROR_NOTICE_THROTTLE_MS

\* the test of showThrottledErrorNotice at the time t
noticeDue(t, last) == t - last > ERROR_NOTICE_THROTTLE_MS

(* Inputs of the model cache *)

\* Date.now() when the plugin starts, counted from an origin two TTLs
\* earlier (TLC's integers do not hold a time counted from 1970)
StartTime == 2 * CACHE_TTL_MS

\* the instants at which something happens: the start, and the instants
\* around 60 seconds and around 24 hours after it
Instants ==
    {StartTime + d : d \in {0, 1, ERROR_NOTICE_THROTTLE_MS,
                            ERROR_NOTICE_THROTTLE_MS + 1,
                            CACHE_TTL_MS - 1, CACHE_TTL_MS}}

Haiku == ModelInfo("claude-3-5-haiku-20241022", "Claude Haiku 3.5", "2024-10-22")

Opus == ModelInfo("claude-opus-4-1-20250805", "Claude Opus 4.1", "2025-08-05")

Sonnet == ModelInfo("claude-sonnet-4-20250514", "Claude Sonnet 4", "2025-05-14")

\* data of a 2xx answer of the models endpoint: empty, and two lists not in
\* the order of their display names
FetchedLists == {<<>>, <<Opus, Haiku>>, <<Sonnet, Opus>>}

\* the ids a list of the settings tab can hold
ModelIds ==
    {Haiku.id, Opus.id, Sonnet.id}
        \cup {ANTHROPIC_MODELS[k] : k \in 1..Len(ANTHROPIC_MODELS)}

\* the cache main.ts restores at start: none, a provider list one
\* millisecond before its expiry, or a fallback list that has expired
PersistedCaches ==
    {<<>>,
     updateCache(<<Sonnet, Haiku>>, StartTime - CACHE_TTL_MS + 1),
     fallbackCache(StartTime - CACHE_TTL_MS)}

\* statuses of a failed models request; 0 is a request that got no response
ModelFailStatuses == {0, 500}

\* the time t is less than 24 hours after the last successful live fetch,
\* with no forced refresh or cache clear since (lastFetch is emptied by those)
WithinDayOfFetch(fetch, t) ==
    IF fetch = <<>> THEN FALSE ELSE t - fetch[1].at < 24 * 60 * 60 * 1000

\* a model-list call suspended at await fetchModels(): the operation, the
\* key at its start, whether it started within a day of the last fetch,
\* and whether a call that started after it has written the cache since
PendingCall(op, key, fresh) ==
    [op |-> op, key |-> key, fresh |-> fresh, late |-> FALSE]

\* the model-list call op as it starts now, the client holding key
StartingWith(op, key) ==
    PendingCall(op, key, WithinDayOfFetch(lastFetch, now))

\* the model-list call op as it starts now
Starting(op) == StartingWith(op, apiKey)

NoCall == <<>>

\* what a completed model-list call did: what is known of it since its
\* start (see PendingCall), the number of requests it sent, how its request
\* ended (none, ok, fail) and with which status, the data of a 2xx answer,
\* whether a notice was shown, the cache right before the step that
\* completed it, and the list it returned
Completed(call, net, fetch, status, data, notice, before, result) ==
    [op |-> call.op, key |-> call.key, fresh |-> call.fresh,
     late |-> call.late, net |-> net,
     fetch |-> fetch, status |-> status, data |-> data, notice |-> notice,
     cacheBefore |-> before, result |-> result]

\* the time between the last two notices, after a notice at the time t
\* (none before the second notice; last is 0 before the first)
Noticed(last, t) == IF last = 0 THEN <<>> ELSE <<t - last>>

RemoveAt(s, i) == SubSeq(s, 1, i - 1) \o SubSeq(s, i + 1, Len(s))

\* every suspended call of s has been overtaken by a later call
MarkLate(s) == [k \in 1..Len(s) |-> [s[k] EXCEPT !.late = TRUE]]

\* the suspended calls after call i has completed: the calls that started
\* before it have been overtaken
Overtake(s, i) ==
    RemoveAt(MarkLate(SubSeq(s, 1, i - 1)) \o SubSeq(s, i, Len(s)), i)

\* DEFAULT_SETTINGS.model
DEFAULT_MODEL == "claude-3-5-haiku-latest"

\* variant: the selection always moves to the first model of the list
selectModel_alwaysFirst(available, currentModel) ==
    IF Len(available) > 0 THEN available[1].id ELSE currentModel

\* the model the settings tab selects after a refresh: the current one if
\* the list has it, else the first of the list
selectModel(available, currentModel) ==
    IF \E k \in 1..Len(available) : available[k].id = currentModel
    THEN currentModel
    ELSE IF Len(available) > 0 THEN available[1].id
    ELSE currentModel

\* a connection test: its position (idle, request, done), the method that
\* was called (the client's or the service's), the credential and the model
\* it was called with, Date.now() at its start, the number of requests it
\* has sent, whether it threw, and the outcome it returned
NoTest ==
    [pc |-> "idle", via |-> "none", key |-> <<>>, model |-> "",
     startTime |-> 0, sent |-> 0, threw |-> FALSE, outcome |-> <<>>]

\* no command has run and no connection test
UiAtStart ==
    /\ cmd = "idle"
    /\ doc = <<>>
    /\ shown = <<>>
    /\ logged = 0
    /\ loading = "none"
    /\ test = NoTest

\* the model cache and its clock before anything has happened
ModelServiceAtStart ==
    /\ now = StartTime
    /\ modelCache = <<>>
    /\ lastErrorNoticeTime = 0
    /\ pending = <<>>
    /\ returned = NoCall
    /\ lastFetch = <<>>
    /\ notices = <<>>
    /\ previous = <<>>
    /\ selectedModel = DEFAULT_MODEL
    /\ saved = <<>>
    /\ settingsKey = apiKey
    /\ availableModels = <<>>
    /\ modelDropdown = <<>>
    /\ saves = <<>>
    /\ UiAtStart

-----------------------------------------------------------------------------
(* The cleanup call *)

Init ==
    /\ apiKey \in Keys
    /\ pc = "idle"
    /\ text = NoText
    /\ settings = NoSettings
    /\ request = NoRequest
    /\ attempt = 0
    /\ lastError = <<"No attempts made">>
    /\ log = <<>>
    /\ response = <<>>
    /\ outcome = NoOutcome
    /\ parseIn = NoParseIn
    /\ parseOut = <<>>
    /\ header = <<>>
    /\ ModelServiceAtStart

\* saveSettings -> CleanupService.updateApiKey -> AnthropicClient.updateApiKey.
\* The key is assigned whatever a cleanup call is doing: while its request
\* is in flight or while it sleeps, the next attempt then reads the new key.
\* The handler that saves is a task of its own; it does not run between the
\* settling of a call and the continuation of the caller that awaits it.
updateApiKey(key) ==
    /\ pc # "done"
    /\ cmd # "returned"
    /\ returned = NoCall
    /\ apiKey' = key
    /\ previous' = IF key = apiKey THEN previous ELSE <<>>
    /\ UNCHANGED <<pc, text, settings, request, attempt, lastError, log,
                   response, outcome, parseIn, parseOut, header>>
    /\ UNCHANGED <<now, modelCache, lastErrorNoticeTime, pending, returned,
                   lastFetch, notices>>
    /\ UNCHANGED <<tabVars, uiVars>>

\* cleanupText is invoked: the checks run, the request is built and the
\* first attempt of makeRequestWithRetry is sent
callStarts(t, s) ==
    /\ pc = "idle"
    /\ text' = t
    /\ settings' = settingsRead(s)
    /\ response' = <<>>
    /\ lastError' = <<"No attempts made">>
    /\ IF entryChecks(apiKey, t) # <<>>
       THEN /\ pc' = "done"
            /\ outcome' = Thrown(entryChecks(apiKey, t)[1])
            /\ request' = NoRequest
            /\ attempt' = 0
            /\ log' = <<>>
            /\ header' = <<>>
       ELSE /\ pc' = "request"
            /\ header' = <<apiKey>>
            /\ outcome' = NoOutcome
            /\ request' = buildRequest(s)
            /\ attempt' = 1
            /\ log' = <<Event("send", 1, 0)>>
    /\ UNCHANGED <<apiKey, parseIn, parseOut>>

\* a caller invokes CleanupService.cleanupText on its own
cleanupText(t, s) ==
    /\ cmd = "idle"
    /\ callStarts(t, s)
    /\ UNCHANGED <<modelVars, tabVars, uiVars>>

\* CleanupCommand.execute up to its return or to await cleanupText: the
\* selection is validated, the loading notice is shown and the call starts
execute(t, s) ==
    /\ cmd = "idle"
    /\ pc = "idle"
    /\ doc' = <<>>
    /\ logged' = 0
    /\ IF validateSelection(t) # <<>>
       THEN /\ shown' = <<Notice("error", validateSelection(t)[1])>>
            /\ loading' = "none"
            /\ cmd' = "returned"
            /\ text' = t
            /\ settings' = settingsRead(s)
            /\ UNCHANGED <<apiKey, pc, request, attempt, lastError, log,
                           response, outcome, parseIn, parseOut, header>>
       ELSE /\ shown' = <<>>
            /\ loading' = "shown"
            /\ cmd' = "awaiting"
            /\ callStarts(t, s)
    /\ UNCHANGED <<modelVars, tabVars, test>>

\* variant: the loop also sleeps and goes on after the attempt MAX_RETRIES
requestFails_oneMore(st, body) ==
    /\ pc = "request"
    /\ lastError' = makeRequestError(st, body)
    /\ IF attempt < MAX_RETRIES + 1
       THEN /\ pc' = "sleep"
            /\ log' = log \o <<Event("fail", attempt, st),
                               Event("sleep", attempt, retryDelay(attempt))>>
            /\ outcome' = outcome
       ELSE /\ pc' = "done"
            /\ log' = log \o <<Event("fail", attempt, st)>>
            /\ outcome' = Thrown(Err("Error", MsgFailedAfter(lastError')))
    /\ header' = <<>>
    /\ UNCHANGED <<apiKey, text, settings, request, attempt, response,
                   parseIn, parseOut>>
    /\ UNCHANGED <<modelVars, tabVars, uiVars>>

\* variant: the loop sleeps after every failed attempt, the last included,
\* and only then raises the final error
requestFails_sleepsAfterLast(st, body) ==
    /\ pc = "request"
    /\ lastError' = makeRequestError(st, body)
    /\ IF attempt < MAX_RETRIES
       THEN /\ pc' = "sleep"
            /\ log' = log \o <<Event("fail", attempt, st),
                               Event("sleep", attempt, retryDelay(attempt))>>
            /\ outcome' = outcome
       ELSE /\ pc' = "done"
            /\ log' = log \o <<Event("fail", attempt, st),
                               Event("sleep", attempt, retryDelay(attempt))>>
            /\ outcome' = Thrown(Err("Error", MsgFailedAfter(lastError')))
    /\ header' = <<>>
    /\ UNCHANGED <<apiKey, text, settings, request, attempt, response,
                   parseIn, parseOut>>
    /\ UNCHANGED <<modelVars, tabVars, uiVars>>

\* makeRequest throws: no response at all, a non-2xx status, or a 2xx body
\* that is not JSON; makeRequestWithRetry takes each as a failed attempt
requestFails(st, body) ==
    /\ pc = "request"
    /\ lastError' = makeRequestError(st, body)
    /\ IF attempt < MAX_RETRIES
       THEN /\ pc' = "sleep"
            /\ log' = log \o <<Event("fail", attempt, st),
                               Event("sleep", attempt, retryDelay(attempt))>>
            /\ outcome' = outcome
       ELSE /\ pc' = "done"
            /\ log' = log \o <<Event("fail", attempt, st)>>
            /\ outcome' = Thrown(Err("Error", MsgFailedAfter(lastError')))
    /\ header' = <<>>
    /\ UNCHANGED <<apiKey, text, settings, request, attempt, response,
                   parseIn, parseOut>>
    /\ UNCHANGED <<modelVars, tabVars, uiVars>>

\* the backoff timer fires: the loop goes to its next attempt, which is sent
\* with the key the client has now
sleepDone ==
    /\ pc = "sleep"
    /\ attempt' = attempt + 1
    /\ log' = log \o <<Event("wake", attempt, retryDelay(attempt)),
                       Event("send", attempt + 1, 0)>>
    /\ pc' = "request"
    /\ header' = <<apiKey>>
    /\ UNCHANGED <<apiKey, text, settings, request, lastError, response,
                   outcome, parseIn, parseOut>>
    /\ UNCHANGED <<modelVars, tabVars, uiVars>>

\* what AnthropicClient.cleanupText does with the response it got
handleResponse(content, expectCommentary) ==
    LET ex == extractTextFromResponse(content)
        pr == parseStructuredResponse(ex.text, expectCommentary)
    IN  IF ~ex.ok THEN Thrown(Err("Error", ex.message))
        ELSE IF ~pr.ok THEN Thrown(Err("Error", pr.message))
        ELSE Returned(pr)

\* makeRequest returns a 2xx response: the text is extracted and parsed and
\* the call returns or throws.  makeRequestWithRetry has returned, and its
\* local lastError with it.
requestSucceeds(content) ==
    /\ pc = "request"
    /\ response' = content
    /\ log' = log \o <<Event("ok", attempt, 200)>>
    /\ outcome' = handleResponse(content, request.enableCommentary)
    /\ pc' = "done"
    /\ lastError' = <<"No attempts made">>
    /\ header' = <<>>
    /\ UNCHANGED <<apiKey, text, settings, request, attempt, parseIn, parseOut>>
    /\ UNCHANGED <<modelVars, tabVars, uiVars>>

\* the insertion text CleanupCommand.execute builds of what a call returned
insertionText(o) ==
    IF o.kind = "result" THEN formatCleanupResult(o) ELSE <<>>

\* variant: the loading notice is hidden after the insertion only
commandResumes_hidesOnSuccess ==
    /\ cmd = "awaiting"
    /\ pc = "done"
    /\ IF outcome.kind = "result"
       THEN /\ doc' = <<insertionText(outcome)>>
            /\ shown' = <<Notice("success", <<"Text cleanup completed in ",
                                              "duration", "s">>)>>
            /\ loading' = "hidden"
            /\ UNCHANGED logged
       ELSE /\ shown' = <<Notice("error", noticeFor(outcome))>>
            /\ logged' = logged + 1
            /\ UNCHANGED <<doc, loading>>
    /\ cmd' = "returned"
    /\ UNCHANGED cleanupVars
    /\ UNCHANGED <<modelVars, tabVars, test>>

\* variant: the service has shown a notice of its own before it threw
commandResumes_twoNotices ==
    /\ cmd = "awaiting"
    /\ pc = "done"
    /\ IF outcome.kind = "result"
       THEN /\ doc' = <<insertionText(outcome)>>
            /\ shown' = <<Notice("success", <<"Text cleanup completed in ",
                                              "duration", "s">>)>>
            /\ UNCHANGED logged
       ELSE /\ shown' = <<Notice("error", outcome.message),
                          Notice("error", noticeFor(outcome))>>
            /\ logged' = logged + 1
            /\ UNCHANGED doc
    /\ loading' = "hidden"
    /\ cmd' = "returned"
    /\ UNCHANGED cleanupVars
    /\ UNCHANGED <<modelVars, tabVars, test>>

\* execute goes on after await cleanupText: the result is formatted and
\* inserted and the success notice shown, or the catch block shows the
\* notice of the error and logs it; finally the loading notice is hidden
commandResumes ==
    /\ cmd = "awaiting"
    /\ pc = "done"
    /\ IF outcome.kind = "result"
       THEN /\ doc' = <<insertionText(outcome)>>
            /\ shown' = <<Notice("success", <<"Text cleanup completed in ",
                                              "duration", "s">>)>>
            /\ UNCHANGED logged
       ELSE /\ shown' = <<Notice("error", noticeFor(outcome))>>
            /\ logged' = logged + 1
            /\ UNCHANGED doc
    /\ loading' = "hidden"
    /\ cmd' = "returned"
    /\ UNCHANGED cleanupVars
    /\ UNCHANGED <<modelVars, tabVars, test>>

\* execute has returned; the next command may start
commandReturns ==
    /\ cmd = "returned"
    /\ cmd' = "idle"
    /\ doc' = <<>>
    /\ shown' = <<>>
    /\ logged' = 0
    /\ loading' = "none"
    /\ pc' = "idle"
    /\ text' = NoText
    /\ settings' = NoSettings
    /\ request' = NoRequest
    /\ attempt' = 0
    /\ lastError' = <<"No attempts made">>
    /\ log' = <<>>
    /\ response' = <<>>
    /\ outcome' = NoOutcome
    /\ UNCHANGED <<apiKey, parseIn, parseOut, header>>
    /\ UNCHANGED <<modelVars, tabVars, test>>

\* the caller has taken the outcome; the next call may start
callReturns ==
    /\ cmd = "idle"
    /\ pc = "done"
    /\ pc' = "idle"
    /\ text' = NoText
    /\ settings' = NoSettings
    /\ request' = NoRequest
    /\ attempt' = 0
    /\ lastError' = <<"No attempts made">>
    /\ log' = <<>>
    /\ response' = <<>>
    /\ outcome' = NoOutcome
    /\ UNCHANGED <<apiKey, parseIn, parseOut, header>>
    /\ UNCHANGED <<modelVars, tabVars, uiVars>>

Next ==
    \/ \E key \in Keys : updateApiKey(key)
    \/ \E t \in Texts, s \in Settings : cleanupText(t, s)
    \/ \E t \in Texts, s \in Settings : execute(t, s)
    \/ commandResumes
    \/ commandReturns
    \/ \E st \in FailStatuses : \E body \in BodiesOf(st) : requestFails(st, body)
    \/ sleepDone
    \/ \E content \in Contents : requestSucceeds(content)
    \/ callReturns

Spec == Init /\ [][Next]_vars

\* requestUrl settles the promise of every request it was given
requestSettles ==
    \/ \E st \in FailStatuses : \E body \in BodiesOf(st) : requestFails(st, body)
    \/ \E content \in Contents : requestSucceeds(content)

\* the cleanup call by itself: CleanupService.cleanupText and what it calls
NextCall ==
    \/ \E key \in Keys : updateApiKey(key)
    \/ \E t \in Texts, s \in Settings : cleanupText(t, s)
    \/ requestSettles
    \/ sleepDone
    \/ callReturns

\* the cleanup call with the scheduling of the runtime: a request that was
\* sent is settled, and a backoff timer that was set fires
SpecFair ==
    Init /\ [][NextCall]_vars /\ WF_vars(requestSettles) /\ WF_vars(sleepDone)


-----------------------------------------------------------------------------
(* parseStructuredResponse on its own: every provider output of at most    *)
(* MaxParseLen tokens, with and without commentary expected.  handled is   *)
(* what AnthropicClient.cleanupText makes of a response whose single       *)
(* content block is that output, formatted what formatCleanupResult makes  *)
(* of that result.                                                         *)

InitParse ==
    /\ apiKey = <<"k">>
    /\ pc = "idle"
    /\ text = NoText
    /\ settings = NoSettings
    /\ request = NoRequest
    /\ attempt = 0
    /\ lastError = <<"No attempts made">>
    /\ log = <<>>
    /\ response = <<>>
    /\ outcome = NoOutcome
    /\ parseIn \in ParseInputs
    /\ parseOut = <<>>
    /\ header = <<>>
    /\ ModelServiceAtStart

applyParse ==
    /\ parseOut = <<>>
    /\ parseOut' =
         <<[parsed  |-> parseStructuredResponse(parseIn.responseText,
                                                parseIn.expectCommentary),
            handled |-> handleResponse(<<parseIn.responseText>>,
                                       parseIn.expectCommentary),
            formatted |-> insertionText(
                              handleResponse(<<parseIn.responseText>>,
                                             parseIn.expectCommentary))]>>
    /\ UNCHANGED <<apiKey, pc, text, settings, request, attempt, lastError,
                   log, response, outcome, parseIn, header>>
    /\ UNCHANGED <<modelVars, tabVars, uiVars>>

NextParse == applyParse

SpecParse == InitParse /\ [][NextParse]_vars


-----------------------------------------------------------------------------
(* The model cache: ModelService with the calls its callers make.  A call   *)
(* runs without interruption up to await fetchModels() and, when the        *)
(* answer has come, from there to its return; other events run in between.  *)
(* The callers (settings.ts: display starts loadModels without awaiting it, *)
(* the onChange handler of the key field awaits refreshModels) take no lock *)
(* and do not wait for a call that is still suspended.                      *)

InitModels ==
    /\ apiKey \in Keys
    /\ pc = "idle"
    /\ text = NoText
    /\ settings = NoSettings
    /\ request = NoRequest
    /\ attempt = 0
    /\ lastError = <<"No attempts made">>
    /\ log = <<>>
    /\ response = <<>>
    /\ outcome = NoOutcome
    /\ parseIn = NoParseIn
    /\ parseOut = <<>>
    /\ header = <<>>
    /\ now = StartTime
    /\ modelCache \in PersistedCaches
    /\ lastErrorNoticeTime = 0
    /\ pending = <<>>
    /\ returned = NoCall
    /\ lastFetch = <<>>
    /\ notices = <<>>
    /\ previous = <<>>
    /\ selectedModel = DEFAULT_MODEL
    /\ saved = <<>>
    /\ settingsKey = apiKey
    /\ availableModels = <<>>
    /\ modelDropdown = <<>>
    /\ saves = <<>>
    /\ UiAtStart

\* time passes: the clock reads t at the next event
Tick(t) ==
    /\ returned = NoCall
    /\ t > now
    /\ now' = t
    /\ previous' = <<>>
    /\ UNCHANGED <<modelCache, lastErrorNoticeTime, pending, returned,
                   lastFetch, notices>>
    /\ UNCHANGED <<cleanupVars, tabVars, uiVars>>

\* getAvailableModels up to its return or to await fetchModels(), the
\* client holding key
getAvailableModelsWith(key) ==
    /\ returned = NoCall
    /\ IF isCacheValid(modelCache, now) /\ modelCache # <<>>
       THEN /\ returned' =
                   <<Completed(StartingWith("get", key), 0, "none", 0, <<>>, FALSE,
                               modelCache, formatModels(modelCache[1].models))>>
            /\ UNCHANGED <<modelCache, pending>>
       ELSE IF ~validateApiKey(key)
       THEN /\ modelCache' = fallbackCache(now)
            /\ returned' =
                   <<Completed(StartingWith("get", key), 0, "none", 0, <<>>, FALSE,
                               modelCache, getFallbackModels)>>
            /\ pending' = MarkLate(pending)
       ELSE /\ Len(pending) < MaxInFlight
            /\ pending' = Append(pending, StartingWith("get", key))
            /\ UNCHANGED <<modelCache, returned>>
    /\ UNCHANGED <<now, lastErrorNoticeTime, lastFetch, notices>>

\* ModelService.getAvailableModels up to its return or to its await
getAvailableModels ==
    /\ getAvailableModelsWith(apiKey)
    /\ UNCHANGED previous
    /\ UNCHANGED <<cleanupVars, tabVars, uiVars>>

\* variant: the forced refresh serves a fresh cache like getAvailableModels
refreshModels_cacheFirst ==
    /\ returned = NoCall
    /\ IF isCacheValid(modelCache, now) /\ modelCache # <<>>
       THEN /\ returned' =
                   <<Completed(Starting("refresh"), 0, "none", 0, <<>>, FALSE,
                               modelCache, formatModels(modelCache[1].models))>>
            /\ UNCHANGED <<modelCache, pending>>
       ELSE IF ~validateApiKey(apiKey)
       THEN /\ modelCache' = fallbackCache(now)
            /\ returned' =
                   <<Completed(Starting("refresh"), 0, "none", 0, <<>>, FALSE,
                               modelCache, getFallbackModels)>>
            /\ pending' = MarkLate(pending)
       ELSE /\ Len(pending) < MaxInFlight
            /\ pending' = Append(pending, Starting("refresh"))
            /\ UNCHANGED <<modelCache, returned>>
    /\ lastFetch' = <<>>
    /\ previous' = <<>>
    /\ UNCHANGED <<now, lastErrorNoticeTime, notices>>
    /\ UNCHANGED <<cleanupVars, tabVars, uiVars>>

\* refreshModels up to its return or to await fetchModels(), the client
\* holding key
refreshModelsWith(key) ==
    /\ returned = NoCall
    /\ IF ~validateApiKey(key)
       THEN /\ modelCache' = fallbackCache(now)
            /\ returned' =
                   <<Completed(StartingWith("refresh", key), 0, "none", 0, <<>>,
                               FALSE, modelCache, getFallbackModels)>>
            /\ pending' = MarkLate(pending)
       ELSE /\ Len(pending) < MaxInFlight
            /\ pending' = Append(pending, StartingWith("refresh", key))
            /\ UNCHANGED <<modelCache, returned>>
    /\ lastFetch' = <<>>
    /\ UNCHANGED <<now, lastErrorNoticeTime, notices>>

\* ModelService.refreshModels up to its return or to its await
refreshModels ==
    /\ refreshModelsWith(apiKey)
    /\ previous' = <<>>
    /\ UNCHANGED <<cleanupVars, tabVars, uiVars>>

\* variant: the fetched list is merged into the cache, old entries kept
fetchSucceeds_merge(i, data) ==
    /\ returned = NoCall
    /\ i \in 1..Len(pending)
    /\ modelCache' =
          updateCache((IF modelCache = <<>> THEN <<>>
                       ELSE SelectSeq(modelCache[1].models,
                                LAMBDA m : \A k \in 1..Len(data) : data[k] # m))
                      \o data, now)
    /\ returned' =
          <<Completed(pending[i], 1,
                      "ok", 200, data, FALSE, modelCache, formatModels(data))>>
    /\ pending' = Overtake(pending, i)
    /\ lastFetch' = <<[data |-> data, at |-> now]>>
    /\ previous' = <<>>
    /\ UNCHANGED <<now, lastErrorNoticeTime, notices>>
    /\ UNCHANGED <<cleanupVars, tabVars, uiVars>>

\* fetchModels of the suspended call i returns a 2xx answer with the list
\* data: the call updates the cache and returns the list formatted
fetchSucceeds(i, data) ==
    /\ returned = NoCall
    /\ i \in 1..Len(pending)
    /\ modelCache' = updateCache(data, now)
    /\ returned' =
          <<Completed(pending[i], 1,
                      "ok", 200, data, FALSE, modelCache, formatModels(data))>>
    /\ pending' = Overtake(pending, i)
    /\ lastFetch' = <<[data |-> data, at |-> now]>>
    /\ previous' = <<>>
    /\ UNCHANGED <<now, lastErrorNoticeTime, notices>>
    /\ UNCHANGED <<cleanupVars, tabVars, uiVars>>

\* variant: on a failure the call returns what the cache held, formatted
fetchFails_servesCache(i, st) ==
    /\ returned = NoCall
    /\ i \in 1..Len(pending)
    /\ IF noticeDue(now, lastErrorNoticeTime)
       THEN /\ lastErrorNoticeTime' = now
            /\ notices' = Noticed(lastErrorNoticeTime, now)
       ELSE UNCHANGED <<lastErrorNoticeTime, notices>>
    /\ modelCache' = fallbackCache(now)
    /\ returned' =
          <<Completed(pending[i], 1,
                      "fail", st, <<>>, noticeDue(now, lastErrorNoticeTime),
                      modelCache,
                      IF modelCache = <<>> THEN <<>>
                      ELSE formatModels(modelCache[1].models))>>
    /\ pending' = Overtake(pending, i)
    /\ lastFetch' = IF pending[i].op = "refresh" THEN <<>> ELSE lastFetch
    /\ previous' = <<>>
    /\ UNCHANGED now
    /\ UNCHANGED <<cleanupVars, tabVars, uiVars>>

\* variant: the time of the last notice is set at every failure, shown or not
fetchFails_stampsAlways(i, st) ==
    /\ returned = NoCall
    /\ i \in 1..Len(pending)
    /\ lastErrorNoticeTime' = now
    /\ IF noticeDue(now, lastErrorNoticeTime)
       THEN notices' = Noticed(lastErrorNoticeTime, now)
       ELSE UNCHANGED notices
    /\ modelCache' = fallbackCache(now)
    /\ returned' =
          <<Completed(pending[i], 1,
                      "fail", st, <<>>, noticeDue(now, lastErrorNoticeTime),
                      modelCache, getFallbackModels)>>
    /\ pending' = Overtake(pending, i)
    /\ lastFetch' = IF pending[i].op = "refresh" THEN <<>> ELSE lastFetch
    /\ previous' = <<>>
    /\ UNCHANGED now
    /\ UNCHANGED <<cleanupVars, tabVars, uiVars>>

\* fetchModels of the suspended call i throws (non-2xx status, or status 0
\* for no answer): showThrottledErrorNotice, then cacheFallbackModels
fetchFails(i, st) ==
    /\ returned = NoCall
    /\ i \in 1..Len(pending)
    /\ IF noticeDue(now, lastErrorNoticeTime)
       THEN /\ lastErrorNoticeTime' = now
            /\ notices' = Noticed(lastErrorNoticeTime, now)
       ELSE UNCHANGED <<lastErrorNoticeTime, notices>>
    /\ modelCache' = fallbackCache(now)
    /\ returned' =
          <<Completed(pending[i], 1,
                      "fail", st, <<>>, noticeDue(now, lastErrorNoticeTime),
                      modelCache, getFallbackModels)>>
    /\ pending' = Overtake(pending, i)
    /\ lastFetch' = IF pending[i].op = "refresh" THEN <<>> ELSE lastFetch
    /\ previous' = <<>>
    /\ UNCHANGED now
    /\ UNCHANGED <<cleanupVars, tabVars, uiVars>>

\* clearCache
clearCache ==
    /\ returned = NoCall
    /\ modelCache # <<>>
    /\ modelCache' = <<>>
    /\ lastFetch' = <<>>
    /\ previous' = <<>>
    /\ UNCHANGED <<now, lastErrorNoticeTime, pending, returned, notices>>
    /\ UNCHANGED <<cleanupVars, tabVars, uiVars>>

\* the caller of the completed call has taken the list (what the settings
\* tab does with it is followed in SpecTab)
callerResumes ==
    /\ returned # NoCall
    /\ returned' = NoCall
    /\ previous' = IF returned[1].op = "get" THEN <<returned[1].result>>
                   ELSE <<>>
    /\ UNCHANGED <<now, modelCache, lastErrorNoticeTime, pending,
                   lastFetch, notices>>
    /\ UNCHANGED <<cleanupVars, tabVars, uiVars>>

NextModels ==
    \/ \E key \in Keys : updateApiKey(key)
    \/ \E t \in Instants : Tick(t)
    \/ getAvailableModels
    \/ refreshModels
    \/ \E i \in 1..MaxInFlight, data \in FetchedLists : fetchSucceeds(i, data)
    \/ \E i \in 1..MaxInFlight, st \in ModelFailStatuses : fetchFails(i, st)
    \/ clearCache
    \/ callerResumes

SpecModels == InitModels /\ [][NextModels]_vars

-----------------------------------------------------------------------------
(* The settings tab as the caller of ModelService and of saveSettings: its *)
(* display, the onChange handlers of its fields, its reset, loadModels and *)
(* the refreshModels of the tab.  Every handler awaits saveSettings, which *)
(* hands the settings to saveData and gives the client the key when        *)
(* saveData has resolved.  The clock stands still here; SpecModels follows *)
(* the cache over time.                                                    *)

InitTab == InitModels

\* saveSettings up to await saveData: the settings with the model cache
saveSettings(key, model, cache) ==
    <<[apiKey |-> key, model |-> model, modelCache |-> cache]>>

\* a call of saveSettings suspended at await saveData: what its handler does
\* when it has returned (key: the rest of the handler of the key field,
\* reset: the rest of resetSettings, display: a call of display, none:
\* nothing), and the key the handler holds
Saving(then, value) == [then |-> then, value |-> value]

\* a dropdown as addDropdown creates it
NewDropdown == [options |-> <<>>, value |-> "", disabled |-> FALSE]

\* the option values of a dropdown
OptionValues(dd) == {dd.options[k] : k \in 1..Len(dd.options)}

\* addOption: the option is appended; a select that shows no option shows
\* its first option from then on
addOption(dd, v) ==
    [dd EXCEPT !.options = Append(@, v),
               !.value = IF dd.value \in OptionValues(dd) THEN dd.value
                         ELSE Append(dd.options, v)[1]]

\* setValue: the dropdown shows the option with the value, and no option
\* when it has none with the value
setValue(dd, v) ==
    [dd EXCEPT !.value = IF v \in OptionValues(dd) THEN v ELSE ""]

\* populateModelDropdown: while the list is empty a placeholder is added to
\* the options there are and the dropdown is disabled; else the options are
\* replaced by the ids of the list, the first of which is shown, and the
\* dropdown is enabled
populateModelDropdown(dd, list) ==
    IF Len(list) = 0
    THEN [addOption(dd, "") EXCEPT !.disabled = TRUE]
    ELSE [options |-> [k \in 1..Len(list) |-> list[k].id],
          value |-> list[1].id, disabled |-> FALSE]

\* the dropdown display builds: filled from the list the tab has, showing
\* settings.model
builtDropdown(list, model) ==
    <<setValue(populateModelDropdown(NewDropdown, list), model)>>

\* the dropdown as the refreshModels of the tab leaves it before its call
refreshingDropdown == <<[options |-> <<"">>, value |-> "", disabled |-> TRUE]>>

\* the ids the user can choose in the dropdown: the options of an enabled
\* dropdown but the one it shows
DropdownOptions ==
    IF modelDropdown = <<>> THEN {}
    ELSE IF modelDropdown[1].disabled THEN {}
    ELSE OptionValues(modelDropdown[1]) \ {modelDropdown[1].value}

\* display: the dropdown is built from the list the tab has, and loadModels
\* is called and not awaited
display ==
    /\ returned = NoCall
    /\ Len(saves) + Len(pending) < MaxAwaits
    /\ modelDropdown' = builtDropdown(availableModels, selectedModel)
    /\ getAvailableModelsWith(apiKey)
    /\ UNCHANGED previous
    /\ UNCHANGED <<selectedModel, saved, settingsKey, availableModels, saves>>
    /\ UNCHANGED <<cleanupVars, uiVars>>

\* the onChange handler of the key field up to its await of saveSettings:
\* the key is set in the settings, which are handed to saveData
onKeyChange(value) ==
    /\ returned = NoCall
    /\ modelDropdown # <<>>
    /\ Len(saves) + Len(pending) < MaxAwaits
    /\ settingsKey' = value
    /\ saved' = saveSettings(value, selectedModel, modelCache)
    /\ saves' = Append(saves, Saving("key", value))
    /\ UNCHANGED <<selectedModel, availableModels, modelDropdown>>
    /\ UNCHANGED <<cleanupVars, modelVars, uiVars>>

\* the onChange handler of the model dropdown up to its await: the user
\* has chosen an option the dropdown did not show, which may be the model
\* the settings already hold
onModelChange(value) ==
    /\ returned = NoCall
    /\ value \in DropdownOptions
    /\ Len(saves) + Len(pending) < MaxAwaits
    /\ modelDropdown' = <<[modelDropdown[1] EXCEPT !.value = value]>>
    /\ selectedModel' = value
    /\ saved' = saveSettings(settingsKey, value, modelCache)
    /\ saves' = Append(saves, Saving("none", <<>>))
    /\ UNCHANGED <<settingsKey, availableModels>>
    /\ UNCHANGED <<cleanupVars, modelVars, uiVars>>

\* the onChange handler of the commentary toggle or of the commentary
\* style up to its await; display follows the await
onCommentaryChange ==
    /\ returned = NoCall
    /\ modelDropdown # <<>>
    /\ Len(saves) + Len(pending) < MaxAwaits
    /\ saved' = saveSettings(settingsKey, selectedModel, modelCache)
    /\ saves' = Append(saves, Saving("display", <<>>))
    /\ UNCHANGED <<selectedModel, settingsKey, availableModels, modelDropdown>>
    /\ UNCHANGED <<cleanupVars, modelVars, uiVars>>

\* the onChange handler of the cleanup prompt or of the custom commentary
\* prompt up to its await
onPromptChange ==
    /\ returned = NoCall
    /\ modelDropdown # <<>>
    /\ Len(saves) + Len(pending) < MaxAwaits
    /\ saved' = saveSettings(settingsKey, selectedModel, modelCache)
    /\ saves' = Append(saves, Saving("none", <<>>))
    /\ UNCHANGED <<selectedModel, settingsKey, availableModels, modelDropdown>>
    /\ UNCHANGED <<cleanupVars, modelVars, uiVars>>

\* resetSettings, confirmed, up to its await: every setting but the key is
\* the default again
resetSettings ==
    /\ returned = NoCall
    /\ modelDropdown # <<>>
    /\ Len(saves) + Len(pending) < MaxAwaits
    /\ selectedModel' = DEFAULT_MODEL
    /\ saved' = saveSettings(settingsKey, DEFAULT_MODEL, modelCache)
    /\ saves' = Append(saves, Saving("reset", settingsKey))
    /\ UNCHANGED <<settingsKey, availableModels, modelDropdown>>
    /\ UNCHANGED <<cleanupVars, modelVars, uiVars>>

\* saveData has resolved for the i-th suspended saveSettings: saveSettings
\* gives the client the key of the settings and returns, and its handler
\* goes on to its next await or to its end.  The handler of the key field
\* gives the client its own value, and calls the refreshModels of the tab
\* if the value has content and else shows the fallback list; resetSettings
\* gives the client the key it kept and calls display; the handlers of the
\* commentary toggle and style call display.
saveResolves(i) ==
    /\ returned = NoCall
    /\ i \in 1..Len(saves)
    /\ saves' = SubSeq(saves, 1, i - 1) \o SubSeq(saves, i + 1, Len(saves))
    /\ apiKey' = IF saves[i].then \in {"key", "reset"} THEN saves[i].value
                 ELSE settingsKey
    /\ IF saves[i].then = "key" /\ Len(Trim(saves[i].value)) > 0
       THEN /\ modelDropdown' = refreshingDropdown
            /\ refreshModelsWith(saves[i].value)
            /\ previous' = <<>>
            /\ UNCHANGED availableModels
       ELSE IF saves[i].then = "key"
       THEN /\ availableModels' = getFallbackModels
            /\ modelDropdown' =
                   <<populateModelDropdown(modelDropdown[1], getFallbackModels)>>
            /\ previous' = IF apiKey' = apiKey THEN previous ELSE <<>>
            /\ UNCHANGED <<now, modelCache, lastErrorNoticeTime, pending,
                           returned, lastFetch, notices>>
       ELSE IF saves[i].then \in {"reset", "display"}
       THEN /\ modelDropdown' = builtDropdown(availableModels, selectedModel)
            /\ getAvailableModelsWith(apiKey')
            /\ previous' = IF apiKey' = apiKey THEN previous ELSE <<>>
            /\ UNCHANGED availableModels
       ELSE /\ previous' = IF apiKey' = apiKey THEN previous ELSE <<>>
            /\ UNCHANGED <<now, modelCache, lastErrorNoticeTime, pending,
                           returned, lastFetch, notices>>
            /\ UNCHANGED <<availableModels, modelDropdown>>
    /\ UNCHANGED <<pc, text, settings, request, attempt, lastError, log,
                   response, outcome, parseIn, parseOut, header>>
    /\ UNCHANGED <<selectedModel, saved, settingsKey, uiVars>>

\* the tab goes on after the call it awaited.  loadModels keeps the list,
\* and display fills the dropdown with it.  The refreshModels of the tab
\* keeps the list, fills the dropdown, leaves the selected model if the list
\* has it and else selects the first of the list, and calls saveSettings
tabResumes ==
    /\ returned # NoCall
    /\ returned' = NoCall
    /\ availableModels' = returned[1].result
    /\ IF returned[1].op = "refresh"
       THEN /\ selectedModel' =
                   IF modelDropdown = <<>> THEN selectedModel
                   ELSE selectModel(returned[1].result, selectedModel)
            /\ modelDropdown' =
                   IF modelDropdown = <<>> THEN modelDropdown
                   ELSE IF Len(returned[1].result) = 0
                   THEN <<populateModelDropdown(modelDropdown[1],
                                                returned[1].result)>>
                   ELSE <<setValue(populateModelDropdown(modelDropdown[1],
                                                         returned[1].result),
                                   selectedModel')>>
            /\ saved' = saveSettings(settingsKey, selectedModel', modelCache)
            /\ saves' = Append(saves, Saving("none", <<>>))
            /\ previous' = <<>>
       ELSE /\ modelDropdown' =
                   IF modelDropdown = <<>> THEN modelDropdown
                   ELSE <<populateModelDropdown(modelDropdown[1],
                                                returned[1].result)>>
            /\ previous' = <<returned[1].result>>
            /\ UNCHANGED <<selectedModel, saved, saves>>
    /\ UNCHANGED settingsKey
    /\ UNCHANGED <<now, modelCache, lastErrorNoticeTime, pending,
                   lastFetch, notices>>
    /\ UNCHANGED <<cleanupVars, uiVars>>

NextTab ==
    \/ display
    \/ \E value \in Keys : onKeyChange(value)
    \/ \E value \in ModelIds : onModelChange(value)
    \/ onCommentaryChange
    \/ onPromptChange
    \/ resetSettings
    \/ \E i \in 1..MaxAwaits : saveResolves(i)
    \/ \E i \in 1..MaxInFlight, data \in FetchedLists : fetchSucceeds(i, data)
    \/ \E i \in 1..MaxInFlight, st \in ModelFailStatuses : fetchFails(i, st)
    \/ tabResumes

SpecTab == InitTab /\ [][NextTab]_vars

-----------------------------------------------------------------------------
(* The connection test *)

TestModels == {DEFAULT_MODEL, "claude-sonnet-4-20250514"}

\* response.model of the provider: the dated id of the model that answered
EchoedModels == {"claude-3-5-haiku-20241022", "claude-sonnet-4-20250514"}

TestStartTimes == {StartTime, StartTime + 5}

\* milliseconds from the start of a test to its response
RoundTrips == {0, 350}

\* what a 2xx response carries: a message with its model and usage, JSON
\* without a usage member, or the text <html>, which response.json cannot
\* parse
TestBodies ==
    [kind : {"message"}, model : EchoedModels,
     input_tokens : {31}, output_tokens : {6, 50}]
        \cup {[kind |-> "noUsage"], [kind |-> "notJson"]}

MsgTestKeyFormat == <<"API key is empty or invalid format">>
MsgTestNotConfigured == <<"API key is not configured">>
MsgTestSuccessful == <<"API connection successful">>
MsgNoUsage == <<"Cannot read properties of undefined (reading 'input_tokens')">>

\* the outcome of a test that failed; code is <<>> where the outcome has no
\* error member
TestFailure(message, code) ==
    [success |-> FALSE, message |-> message, error |-> code, details |-> <<>>]

\* the outcome of a test that succeeded
TestSuccess(body, responseTime) ==
    [success |-> TRUE, message |-> MsgTestSuccessful, error |-> <<>>,
     details |-> <<[model |-> body.model, responseTime |-> responseTime,
                    inputTokens |-> body.input_tokens,
                    outputTokens |-> body.output_tokens]>>]

TestDone(result) == [test EXCEPT !.pc = "done", !.outcome = result]

\* a test is called, the client's (via = "client") or the service's that
\* calls the client's (via = "service"): each checks the credential before
\* anything is sent
testConnection(via, model, startTime) ==
    /\ test.pc = "idle"
    /\ LET called == [NoTest EXCEPT !.via = via, !.key = apiKey,
                                    !.model = model, !.startTime = startTime]
       IN  IF via = "service" /\ ~validateApiKey(apiKey)
           THEN test' = [called EXCEPT !.pc = "done",
                             !.outcome = TestFailure(MsgTestNotConfigured, <<>>)]
           ELSE IF ~validateApiKey(apiKey)
           THEN test' = [called EXCEPT !.pc = "done",
                             !.outcome = TestFailure(MsgTestKeyFormat,
                                                     <<"INVALID_KEY_FORMAT">>)]
           ELSE test' = [called EXCEPT !.pc = "request", !.sent = 1]
    /\ UNCHANGED <<cleanupVars, modelVars, tabVars, cmdVars>>

\* variant: the error of makeRequest is not caught by the client
testFails_throws(st, body) ==
    /\ test.pc = "request"
    /\ test' = IF test.via = "client"
               THEN [test EXCEPT !.pc = "done", !.threw = TRUE]
               ELSE TestDone(TestFailure(makeRequestError(st, body), <<>>))
    /\ UNCHANGED <<cleanupVars, modelVars, tabVars, cmdVars>>

\* makeRequest throws: non-2xx status or no response at all
testFails(st, body) ==
    /\ test.pc = "request"
    /\ test' = TestDone(TestFailure(makeRequestError(st, body),
                                    <<"CONNECTION_FAILED">>))
    /\ UNCHANGED <<cleanupVars, modelVars, tabVars, cmdVars>>

\* a 2xx response arrives roundTrip milliseconds after the start
testSucceeds(body, roundTrip) ==
    /\ test.pc = "request"
    /\ LET responseTime == (test.startTime + roundTrip) - test.startTime
       IN  test' =
               IF body.kind = "message"
               THEN TestDone(TestSuccess(body, responseTime))
               ELSE IF body.kind = "noUsage"
               THEN TestDone(TestFailure(MsgNoUsage, <<"CONNECTION_FAILED">>))
               ELSE TestDone(TestFailure(MsgNotJson, <<"CONNECTION_FAILED">>))
    /\ UNCHANGED <<cleanupVars, modelVars, tabVars, cmdVars>>

\* the caller has taken the outcome; the next test may start
testReturns ==
    /\ test.pc = "done"
    /\ test' = NoTest
    /\ UNCHANGED <<cleanupVars, modelVars, tabVars, cmdVars>>

InitTest == Init

NextTest ==
    \/ \E key \in Keys : updateApiKey(key)
    \/ \E via \in {"client", "service"}, model \in TestModels,
          startTime \in TestStartTimes : testConnection(via, model, startTime)
    \/ \E st \in FailStatuses : \E body \in BodiesOf(st) : testFails(st, body)
    \/ \E body \in TestBodies, roundTrip \in RoundTrips : testSucceeds(body, roundTrip)
    \/ testReturns

SpecTest == InitTest /\ [][NextTest]_vars

-----------------------------------------------------------------------------
(* The error kinds of the first CleanupCommand *)

\* String.prototype.includes on a message: the pieces of the messages of
\* this module that contain the phrase
PiecesWith(phrase) ==
    CASE phrase = "API key" ->
             {MsgKeyNotConfigured[1], MsgKeyRequired[1], MsgTestKeyFormat[1],
              MsgTestNotConfigured[1], MsgApiKeyNotice[1],
              "invalid API key provided"}
      [] phrase = "too long" ->
             {MsgSelectedTooLong[1], MsgTextTooLong[1], MsgSelectionTooLong[1],
              MsgTooManyTokens[1], "upstream sent header too long"}
      [] phrase = "Failed after" -> {MsgFailedAfter(<<>>)[1]}
      [] OTHER -> {}

includes(message, phrase) ==
    \E i \in 1..Len(message) : message[i] \in PiecesWith(phrase)

\* the error kinds the first CleanupCommand.execute tells apart by message
errorKind(message) ==
    IF includes(message, "API key") THEN "apiKey"
    ELSE IF includes(message, "too long") THEN "tooLong"
    ELSE IF includes(message, "Failed after") THEN "unavailable"
    ELSE "other"

-----------------------------------------------------------------------------
(* What the log of a call says *)

EventsOf(ev) == SelectSeq(log, LAMBDA e : e.ev = ev)

\* number of HTTP requests the call has issued
NetCalls == Len(EventsOf("send"))

\* the backoff delays the call has started, in order
SleepDelays == [i \in 1..Len(EventsOf("sleep")) |-> EventsOf("sleep")[i].v]

\* requests issued and not yet answered
InFlight == NetCalls - Len(EventsOf("fail")) - Len(EventsOf("ok"))

\* a key with no non-whitespace character (empty included)
BlankKey(key) == \A i \in 1..Len(key) : key[i] = "w"

\* a text with no non-whitespace character (empty included)
BlankText(t) == t.len = 0 \/ t.blank

-----------------------------------------------------------------------------
(* C1 *)

\* C1 as stated: every call whose text is longer than the character ceiling
\* fails with the input-too-large error and issues no network request.
C1_AsStated ==
    (pc = "done" /\ text.len > CharacterCeiling) =>
        /\ outcome.kind = "error"
        /\ outcome.name = "TextTooLongError"
        /\ errorKind(outcome.message) = "tooLong"
        /\ NetCalls = 0

\* C1 (amended): every call whose text is longer than the character ceiling
\* fails without any network request; the failure is the input-too-large
\* error whenever the text is not blank and the credential is not blank (a
\* blank text is rejected first, then a blank credential).
C1_TooLargeNoNetwork ==
    (pc = "done" /\ text.len > CharacterCeiling) =>
        /\ outcome.kind = "error"
        /\ NetCalls = 0
        /\ (~BlankText(text) /\ ~BlankKey(apiKey)) =>
               /\ outcome.name = "TextTooLongError"
               /\ errorKind(outcome.message) = "tooLong"
        /\ BlankText(text) => outcome.message = MsgNoText
        /\ (~BlankText(text) /\ BlankKey(apiKey)) =>
               outcome.name = "ApiKeyError"

C1_Witness ==
    /\ pc = "done"
    /\ text.len > CharacterCeiling
    /\ ~BlankText(text)
    /\ ~BlankKey(apiKey)
    /\ outcome.name = "TextTooLongError"
    /\ log = <<>>

-----------------------------------------------------------------------------
(* C2 *)

\* the step in which a cleanup call is made
CallIsMade == pc = "idle" /\ pc' # "idle"

\* C2 as stated: every call made while the credential is empty or
\* whitespace only fails with the credential error and issues no network
\* request.
C2_AsStated ==
    [][(CallIsMade /\ BlankKey(apiKey)) =>
           /\ pc' = "done"
           /\ outcome'.kind = "error"
           /\ outcome'.name = "ApiKeyError"
           /\ errorKind(outcome'.message) = "apiKey"
           /\ log' = <<>>]_vars

\* C2 (amended): every call made while the credential is empty or
\* whitespace only fails at once, without any network request; the failure
\* is the credential error whenever the text is not blank (a blank text is
\* rejected first, with 'No text selected for cleanup').
C2_NoCredentialNoNetwork ==
    [][(CallIsMade /\ BlankKey(apiKey)) =>
           /\ pc' = "done"
           /\ outcome'.kind = "error"
           /\ log' = <<>>
           /\ header' = <<>>
           /\ ~BlankText(text') =>
                  /\ outcome'.name = "ApiKeyError"
                  /\ errorKind(outcome'.message) = "apiKey"
           /\ BlankText(text') => outcome'.message = MsgNoText]_vars

C2_Witness ==
    /\ pc = "done"
    /\ apiKey = <<"w">>
    /\ ~BlankText(text)
    /\ outcome.name = "ApiKeyError"
    /\ log = <<>>

-----------------------------------------------------------------------------
(* C3 *)

CustomWithoutPrompt(s) ==
    /\ s.enableCommentary
    /\ s.commentaryStyle = "custom"
    /\ s.customCommentaryPrompt = <<>>

\* C3: a call with commentary enabled, style custom and an empty custom
\* instruction fails with a configuration error, and no network request is
\* dispatched for it.  (Stated for the calls whose text and credential pass
\* the other checks, so that no other error comes first.)
C3_CustomNeedsPrompt ==
    (/\ pc # "idle"
     /\ CustomWithoutPrompt(settings)
     /\ ~BlankText(text) /\ text.len <= CharacterCeiling
     /\ ~BlankKey(apiKey)) =>
        /\ NetCalls = 0
        /\ pc = "done"
        /\ outcome.kind = "error"
        /\ outcome.name = "ConfigurationError"

-----------------------------------------------------------------------------
(* C4 *)

\* C4: a call issues at most 3 requests, one at a time: the first event is
\* the first request; request n+1 directly follows the end of the backoff
\* sleep that followed the failure of request n; at most one request is
\* unanswered; and nothing is sent after a 2xx response.
C4_SequentialAttempts ==
    /\ NetCalls <= 3
    /\ InFlight \in {0, 1}
    /\ log # <<>> => log[1] = Event("send", 1, 0)
    /\ \A i \in 1..Len(log) :
          (log[i].ev = "send" /\ i > 1) =>
              /\ i >= 5
              /\ log[i - 1].ev = "wake" /\ log[i - 1].n = log[i].n - 1
              /\ log[i - 2].ev = "sleep" /\ log[i - 2].n = log[i].n - 1
              /\ log[i - 3].ev = "fail" /\ log[i - 3].n = log[i].n - 1
              /\ log[i - 4].ev = "send" /\ log[i - 4].n = log[i].n - 1
    /\ \A i \in 1..Len(log) : log[i].ev = "ok" => i = Len(log)

C4_Witness ==
    /\ pc = "done"
    /\ NetCalls = 3
    /\ Len(EventsOf("fail")) = 2
    /\ Len(EventsOf("ok")) = 1

-----------------------------------------------------------------------------
(* C5 *)

Transient == {0, 429, 500, 503}

\* the first two attempts failed with a transient error, the third got 2xx
TwoTransientThenOk ==
    /\ Len(EventsOf("fail")) = 2
    /\ \A i \in 1..2 : EventsOf("fail")[i].v \in Transient
    /\ Len(EventsOf("ok")) = 1

\* the provider output has a cleaned-text section that is not blank
WellFormed(s) ==
    \E i, j \in 1..Len(s) :
        /\ i < j /\ s[i] = "S" /\ s[j] = "E"
        /\ \A k \in 1..(i - 1) : s[k] # "S"
        /\ \A k \in (i + 1)..(j - 1) : s[k] # "E"
        /\ \E k \in (i + 1)..(j - 1) : s[k] # "w"

\* C5: a call whose first two attempts fail with a transient error and
\* whose third attempt succeeds returns the result parsed from the third
\* response, after exactly two sleeps: 1000 ms after attempt 1 and 2000 ms
\* after attempt 2.
C5_RetryThenSuccess ==
    (pc = "done" /\ TwoTransientThenOk) =>
        /\ NetCalls = 3
        /\ SleepDelays = <<1000, 2000>>
        /\ Len(EventsOf("wake")) = 2
        /\ log[Len(log)] = Event("ok", 3, 200)
        /\ (response # <<>> /\ WellFormed(response[1])) =>
               /\ outcome.kind = "result"
               /\ outcome = handleResponse(response, request.enableCommentary)

C5_Witness ==
    /\ pc = "done"
    /\ TwoTransientThenOk
    /\ outcome.kind = "result"
    /\ outcome.cleanedText = <<"a">>
    /\ SleepDelays = <<1000, 2000>>

-----------------------------------------------------------------------------
(* C6 *)

\* statuses in [400,500) other than 429
Terminal4xx == {401, 403}

\* C6: when the first attempt gets 401, or any 4xx other than 429, the call
\* fails at once: exactly one request, no sleep, no retry.
C6_NoRetryOn4xx ==
    (Len(EventsOf("fail")) >= 1 /\ EventsOf("fail")[1].v \in Terminal4xx) =>
        /\ NetCalls = 1
        /\ SleepDelays = <<>>
        /\ pc = "done"
        /\ outcome.kind = "error"

-----------------------------------------------------------------------------
(* C7 *)

\* C7: when each of the 3 attempts fails with a retryable failure, the call
\* raises the service-unavailable error, whose message is 'Failed after 3
\* attempts. Last error: ' followed by the message of the error of the
\* third attempt.
C7_ExhaustedRaisesServiceUnavailable ==
    (/\ pc = "done"
     /\ Len(EventsOf("fail")) = 3
     /\ \A i \in 1..3 : EventsOf("fail")[i].v \in Transient) =>
        /\ outcome.kind = "error"
        /\ outcome.name = "ServiceUnavailableError"
        /\ outcome.message = MsgFailedAfter(lastError)
        /\ \E body \in BodiesOf(EventsOf("fail")[3].v) :
               lastError = makeRequestError(EventsOf("fail")[3].v, body)
        /\ NetCalls = 3

\* three retryable failures, the third unlike the first two: the error
\* raised wraps the third, and it is a plain Error
C7_Witness ==
    /\ pc = "done"
    /\ Len(EventsOf("fail")) = 3
    /\ EventsOf("fail")[1].v = 500
    /\ EventsOf("fail")[2].v = 0
    /\ EventsOf("fail")[3].v = 429
    /\ outcome.message = MsgFailedAfter(MsgRequestFailed(429, ""))
    /\ outcome.name = "Error"

-----------------------------------------------------------------------------
(* C8 *)

\* r is x without its leading and trailing whitespace
IsTrimOf(r, x) ==
    \E a, b \in 0..Len(x) :
        /\ a + b <= Len(x)
        /\ r = SubSeq(x, a + 1, Len(x) - b)
        /\ \A k \in 1..a : x[k] = "w"
        /\ \A k \in (Len(x) - b + 1)..Len(x) : x[k] = "w"
        /\ r # <<>> => (r[1] # "w" /\ r[Len(r)] # "w")

\* i is the first start marker of s and j the first end marker after it
FirstPair(s, i, j) ==
    /\ i < j /\ s[i] = "S" /\ s[j] = "E"
    /\ \A k \in 1..(i - 1) : s[k] # "S"
    /\ \A k \in (i + 1)..(j - 1) : s[k] # "E"

Blank(x) == \A k \in 1..Len(x) : x[k] = "w"

\* C8 as stated: whenever the output contains the marker pair around X,
\* parsing yields X trimmed.
C8_AsStated ==
    parseOut # <<>> =>
        LET s == parseIn.responseText
        IN  \A i, j \in 1..Len(s) :
                FirstPair(s, i, j) =>
                    /\ parseOut[1].parsed.ok
                    /\ IsTrimOf(parseOut[1].parsed.cleanedText,
                                SubSeq(s, i + 1, j - 1))

\* C8 (amended): whenever the output contains the marker pair around an X
\* that is not blank, parsing yields X trimmed (first start marker, first
\* end marker after it, whatever surrounds the pair); when X is blank,
\* parsing fails with 'Empty cleaned text received'.
C8_CleanedTextIsTrimmedX ==
    parseOut # <<>> =>
        LET s == parseIn.responseText
        IN  \A i, j \in 1..Len(s) :
                FirstPair(s, i, j) =>
                    IF Blank(SubSeq(s, i + 1, j - 1))
                    THEN /\ ~parseOut[1].parsed.ok
                         /\ parseOut[1].parsed.message = MsgEmptyCleaned
                    ELSE /\ parseOut[1].parsed.ok
                         /\ IsTrimOf(parseOut[1].parsed.cleanedText,
                                     SubSeq(s, i + 1, j - 1))

\* prose before and after the pair, whitespace to trim, a second end marker
C8_Witness ==
    /\ parseOut # <<>>
    /\ parseIn.responseText = <<"a", "S", "w", "a", "E", "E">>
    /\ parseOut[1].parsed.ok
    /\ parseOut[1].parsed.cleanedText = <<"a">>

-----------------------------------------------------------------------------
(* C9 *)

RECURSIVE Concat(_)
\* the text blocks of a content list joined in order
Concat(content) ==
    IF content = <<>> THEN <<>> ELSE Head(content) \o Concat(Tail(content))

MalformedMessages ==
    {MsgInvalidFormat, MsgEmptyCleaned, MsgNoContent, MsgEmptyResponse}

\* C9: when a 2xx response has no cleaned-text marker pair, or only
\* whitespace between the markers, the call throws the malformed-response
\* error, produces no result, and the 2xx response is the last thing on the
\* wire: the failure is not retried.  A 2xx response has no marker pair
\* when the text it carries has none, and when its body is not JSON.
C9_MalformedNotRetried ==
    /\ (pc = "done" /\ Len(EventsOf("ok")) = 1
                    /\ ~WellFormed(Concat(response))) =>
           /\ outcome.kind = "error"
           /\ outcome.message \in MalformedMessages
           /\ errorKind(outcome.message) = "other"
           /\ log[Len(log)].ev = "ok"
           /\ NetCalls = attempt
           /\ NetCalls = Len(EventsOf("fail")) + 1
    /\ \A k \in 1..Len(log) :
           (log[k].ev = "fail" /\ log[k].v = 200) =>
               /\ k = Len(log)
               /\ pc = "done"
               /\ outcome.kind = "error"
               /\ outcome.message \in MalformedMessages

\* the first response was 2xx with a body that is not JSON; the call sent a
\* second request and returned a result
C9_Witness ==
    /\ pc = "done"
    /\ Len(EventsOf("fail")) = 1
    /\ EventsOf("fail")[1].v = 200
    /\ lastError = <<"No attempts made">>
    /\ NetCalls = 2
    /\ outcome.kind = "result"

-----------------------------------------------------------------------------
(* C10 *)

HasCommentaryPair(s) ==
    \E i, j \in 1..Len(s) : i < j /\ s[i] = "CS" /\ s[j] = "CE"

\* C10: with commentary requested, a response that has a valid cleaned-text
\* section and no commentary marker pair makes the call succeed: the result
\* has the cleaned text and no commentary.
C10_MissingCommentaryIsNoError ==
    (/\ parseOut # <<>>
     /\ parseIn.expectCommentary
     /\ WellFormed(parseIn.responseText)
     /\ ~HasCommentaryPair(parseIn.responseText)) =>
        /\ parseOut[1].handled.kind = "result"
        /\ parseOut[1].handled.commentary = <<>>
        /\ parseOut[1].handled.cleanedText # <<>>
        /\ \A i, j \in 1..Len(parseIn.responseText) :
              FirstPair(parseIn.responseText, i, j) =>
                  IsTrimOf(parseOut[1].handled.cleanedText,
                           SubSeq(parseIn.responseText, i + 1, j - 1))

\* a start marker of the commentary section without its end marker
C10_Witness ==
    /\ parseOut # <<>>
    /\ parseIn.expectCommentary
    /\ parseIn.responseText = <<"S", "a", "E", "CS", "a">>
    /\ parseOut[1].handled.kind = "result"
    /\ parseOut[1].handled.cleanedText = <<"a">>
    /\ parseOut[1].handled.commentary = <<>>

-----------------------------------------------------------------------------
(* C11 *)

\* C11: the text that is parsed for markers is the concatenation, in order,
\* of all text fragments of the content list of the response: when the
\* concatenation has a cleaned-text section that is not blank, in whichever
\* fragments it lies, the call returns the result parsed from the
\* concatenation.
C11_ParsesConcatenation ==
    (pc = "done" /\ Len(EventsOf("ok")) = 1 /\ WellFormed(Concat(response))) =>
        /\ outcome.kind = "result"
        /\ outcome =
               handleResponse(<<Concat(response)>>, request.enableCommentary)

-----------------------------------------------------------------------------
(* C20 *)

CleanupSection(r) == <<"\n\n---\n\n", "AI Cleanup:", "\n\n">> \o r.cleanedText

CommentarySection(c) == <<"\n\n---\n\n", "AI Commentary:", "\n\n">> \o c

Occurrences(s, piece) == {i \in 1..Len(s) : s[i] = piece}

\* C20 as stated: the formatted text is the cleanup section; when the result
\* has commentary, the commentary section follows it; when it has none, the
\* 'AI Commentary:' header does not occur.
C20_AsStated ==
    (parseOut # <<>> /\ parseOut[1].handled.kind = "result") =>
        LET r == parseOut[1].handled
            f == parseOut[1].formatted
        IN  IF r.commentary # <<>>
            THEN /\ f = CleanupSection(r) \o CommentarySection(r.commentary[1])
                 /\ Occurrences(f, "AI Commentary:") = {Len(CleanupSection(r)) + 2}
            ELSE /\ f = CleanupSection(r)
                 /\ Occurrences(f, "AI Commentary:") = {}

\* C20 (amended): the formatted text is the cleanup section; when the result
\* has a commentary that is not the empty string, the commentary section
\* follows it, with 'AI Cleanup:' before 'AI Commentary:'; when the result
\* has no commentary, or the empty string as commentary, the formatted text
\* is the cleanup section alone and has no 'AI Commentary:' header.
C20_FormatSections ==
    (parseOut # <<>> /\ parseOut[1].handled.kind = "result") =>
        LET r == parseOut[1].handled
            f == parseOut[1].formatted
        IN  /\ SubSeq(f, 1, Len(CleanupSection(r))) = CleanupSection(r)
            /\ f[2] = "AI Cleanup:"
            /\ IF r.commentary # <<>> /\ r.commentary[1] # <<>>
               THEN /\ f = CleanupSection(r)
                           \o CommentarySection(r.commentary[1])
                    /\ Occurrences(f, "AI Commentary:")
                           = {Len(CleanupSection(r)) + 2}
                    /\ \A i \in Occurrences(f, "AI Cleanup:") :
                           i < Len(CleanupSection(r)) + 2
               ELSE /\ f = CleanupSection(r)
                    /\ Occurrences(f, "AI Commentary:") = {}

\* a result with commentary, formatted with both sections
C20_Witness ==
    /\ parseOut # <<>>
    /\ parseIn.responseText = <<"S", "a", "E", "CS", "a", "CE">>
    /\ parseIn.expectCommentary
    /\ parseOut[1].handled.commentary = << <<"a">> >>
    /\ parseOut[1].formatted =
           <<"\n\n---\n\n", "AI Cleanup:", "\n\n", "a",
             "\n\n---\n\n", "AI Commentary:", "\n\n", "a">>

-----------------------------------------------------------------------------
(* What a completed model-list call says *)

Range(seq) == {seq[i] : i \in 1..Len(seq)}

\* the static fallback list: every fallback identifier, in the order of the
\* list, as id and as display name
StaticFallback ==
    [i \in 1..Len(ANTHROPIC_MODELS) |->
        [id |-> ANTHROPIC_MODELS[i], displayName |-> ANTHROPIC_MODELS[i]]]

\* the model options of a list of provider entries, in no order
OptionsOf(models) ==
    {[id |-> m.id, displayName |-> m.display_name] : m \in Range(models)}

SortedByDisplayName(opts) ==
    \A i, j \in 1..Len(opts) :
        i < j => CollationRank(opts[i].displayName)
                     <= CollationRank(opts[j].displayName)

\* the cache c is absent or 24 hours old or older at the time t
AbsentOrExpired(c, t) ==
    IF c = <<>> THEN TRUE ELSE t - c[1].fetchedAt >= 24 * 60 * 60 * 1000

-----------------------------------------------------------------------------
(* C12 *)

\* C12: a getAvailableModels call made less than 24 hours after a successful
\* live fetch, with no forced refresh or cache clear in between, sends no
\* request and returns the set of models that was fetched.
C12_FreshCacheServesFetched ==
    (/\ returned # NoCall
     /\ returned[1].op = "get"
     /\ returned[1].fresh
     /\ lastFetch # <<>>) =>
        /\ returned[1].net = 0
        /\ Range(returned[1].result) = OptionsOf(lastFetch[1].data)

-----------------------------------------------------------------------------
(* C13 *)

\* C13 as stated: every getAvailableModels call made without a credential
\* returns exactly the static fallback list, sends no request and shows no
\* notice, whatever the cache holds.
C13_AsStated ==
    (returned # NoCall /\ returned[1].op = "get" /\ BlankKey(returned[1].key)) =>
        /\ returned[1].result = StaticFallback
        /\ returned[1].net = 0
        /\ ~returned[1].notice

\* C13 (amended): every getAvailableModels call made without a credential
\* sends no request and shows no notice; when the cache is absent or 24
\* hours old or older it returns exactly the static fallback list (each id
\* equal to its display name) and leaves that list in the cache, stamped
\* with the time of the call; when the cache is younger it returns the
\* cached list, sorted by display name, and leaves the cache as it is.
C13_NoCredentialNoFetch ==
    (returned # NoCall /\ returned[1].op = "get" /\ BlankKey(returned[1].key)) =>
        /\ returned[1].net = 0
        /\ returned[1].fetch = "none"
        /\ ~returned[1].notice
        /\ IF AbsentOrExpired(returned[1].cacheBefore, now)
           THEN /\ returned[1].result = StaticFallback
                /\ \A i \in 1..Len(returned[1].result) :
                      returned[1].result[i].id
                          = returned[1].result[i].displayName
                /\ modelCache # <<>>
                /\ OptionsOf(modelCache[1].models) = Range(StaticFallback)
                /\ modelCache[1].fetchedAt = now
           ELSE /\ Range(returned[1].result)
                       = OptionsOf(returned[1].cacheBefore[1].models)
                /\ Len(returned[1].result)
                       = Len(returned[1].cacheBefore[1].models)
                /\ SortedByDisplayName(returned[1].result)
                /\ modelCache = returned[1].cacheBefore

\* no credential and a cache that has just reached the age of 24 hours
C13_Witness ==
    /\ returned # NoCall
    /\ returned[1].op = "get"
    /\ BlankKey(returned[1].key)
    /\ returned[1].cacheBefore # <<>>
    /\ now - returned[1].cacheBefore[1].fetchedAt = 24 * 60 * 60 * 1000
    /\ returned[1].result = StaticFallback
    /\ returned[1].net = 0

-----------------------------------------------------------------------------
(* C14 *)

\* C14: any two fetch-failure notices are more than 60 seconds apart; a
\* notice is shown by a failed fetch only, and stamps the time it is shown.
C14_NoticesThrottled ==
    /\ notices # <<>> => notices[1] > 60 * 1000
    /\ (returned # NoCall /\ returned[1].notice) =>
           /\ returned[1].fetch = "fail"
           /\ lastErrorNoticeTime = now

\* a second notice, 60001 ms after the one before
C14_Witness ==
    /\ returned # NoCall
    /\ returned[1].fetch = "fail"
    /\ returned[1].notice
    /\ notices = <<60 * 1000 + 1>>

-----------------------------------------------------------------------------
(* C15 *)

\* C15: a refreshModels call made with a credential sends exactly one
\* request, whatever the age of the cache; made without a credential it
\* sends none and returns the static fallback list.
C15_RefreshAlwaysFetches ==
    /\ \A i \in 1..Len(pending) : ~BlankKey(pending[i].key)
    /\ (returned # NoCall /\ returned[1].op = "refresh") =>
           IF BlankKey(returned[1].key)
           THEN /\ returned[1].net = 0
                /\ returned[1].fetch = "none"
                /\ returned[1].result = StaticFallback
           ELSE /\ returned[1].net = 1
                /\ returned[1].fetch \in {"ok", "fail"}

\* a refresh that fetched although the cache held a provider list younger
\* than 24 hours
C15_Witness ==
    /\ returned # NoCall
    /\ returned[1].op = "refresh"
    /\ ~BlankKey(returned[1].key)
    /\ returned[1].net = 1
    /\ returned[1].fetch = "ok"
    /\ ~AbsentOrExpired(returned[1].cacheBefore, now)
    /\ returned[1].cacheBefore[1].models = <<Sonnet, Haiku>>

-----------------------------------------------------------------------------
(* C16 *)

\* C16: right after a successful live fetch, of getAvailableModels or of
\* refreshModels, the cache holds exactly the fetched list, stamped with the
\* time of the update: an entry of the cache before survives only when the
\* fetched list has it.
C16_CacheReplacedWholesale ==
    (returned # NoCall /\ returned[1].fetch = "ok") =>
        /\ modelCache # <<>>
        /\ modelCache[1].models = returned[1].data
        /\ modelCache[1].fetchedAt = now
        /\ returned[1].cacheBefore # <<>> =>
               \A m \in Range(returned[1].cacheBefore[1].models) :
                   m \in Range(modelCache[1].models) =>
                       m \in Range(returned[1].data)

\* the cache before held Sonnet and Haiku, the fetched list has Opus and
\* Haiku: Sonnet is gone
C16_Witness ==
    /\ returned # NoCall
    /\ returned[1].op = "get"
    /\ returned[1].fetch = "ok"
    /\ returned[1].cacheBefore # <<>>
    /\ returned[1].cacheBefore[1].models = <<Sonnet, Haiku>>
    /\ returned[1].data = <<Opus, Haiku>>
    /\ modelCache = <<[models |-> <<Opus, Haiku>>, fetchedAt |-> now]>>

-----------------------------------------------------------------------------
(* C17 *)

\* C17: at every moment at most one getAvailableModels or refreshModels
\* call is in flight: no call starts while another is suspended at its
\* request.
C17_OneCallAtATime == Len(pending) <= 1

-----------------------------------------------------------------------------
(* C18 *)

\* C18: a getAvailableModels or refreshModels call whose live fetch fails,
\* by a non-2xx status or by a network failure, completes with a list, and
\* the list is the static fallback list.
C18_FailureFallsBack ==
    (returned # NoCall /\ returned[1].fetch = "fail") =>
        /\ returned[1].op \in {"get", "refresh"}
        /\ returned[1].net = 1
        /\ returned[1].result = StaticFallback
        /\ returned[1].data = <<>>

\* a forced refresh whose request got no answer
C18_Witness ==
    /\ returned # NoCall
    /\ returned[1].op = "refresh"
    /\ returned[1].fetch = "fail"
    /\ returned[1].status = 0
    /\ returned[1].result = StaticFallback

-----------------------------------------------------------------------------
(* C19 *)

\* C19: the list a getAvailableModels or refreshModels call returns has at
\* least one model option, whatever the cache, the credential and the
\* outcome of the fetch.
C19_AlwaysSomeModel ==
    returned # NoCall => Len(returned[1].result) >= 1

-----------------------------------------------------------------------------
(* C29 *)

\* C29: when commentary was not requested, the result of a response with a
\* valid cleaned-text section carries no commentary, also when the response
\* has a well-formed commentary section, and the formatted insertion text is
\* the cleanup section alone, without an 'AI Commentary:' header.
C29_UnrequestedCommentaryDropped ==
    (/\ parseOut # <<>>
     /\ ~parseIn.expectCommentary
     /\ WellFormed(parseIn.responseText)) =>
        /\ parseOut[1].handled.kind = "result"
        /\ parseOut[1].handled.commentary = <<>>
        /\ parseOut[1].parsed.commentary = <<>>
        /\ parseOut[1].formatted = CleanupSection(parseOut[1].handled)
        /\ Occurrences(parseOut[1].formatted, "AI Commentary:") = {}

\* a response with both sections, parsed without commentary requested
C29_Witness ==
    /\ parseOut # <<>>
    /\ ~parseIn.expectCommentary
    /\ parseIn.responseText = <<"S", "a", "E", "CS", "a", "CE">>
    /\ HasCommentaryPair(parseIn.responseText)
    /\ parseOut[1].handled.kind = "result"
    /\ parseOut[1].handled.commentary = <<>>
    /\ parseOut[1].formatted = <<"\n\n---\n\n", "AI Cleanup:", "\n\n", "a">>

-----------------------------------------------------------------------------
(* C28 *)

\* the most log entries a call can make: 3 sends, 3 failures, 2 sleeps and
\* their 2 wake-ups
MostSteps == 3 * MAX_RETRIES + (MAX_RETRIES - 2)

\* a call at rest after k attempts has slept k - 1 times, and its last
\* step was the settling of a request, not a sleep
SleepsBetweenAttemptsOnly ==
    (pc = "done" /\ NetCalls > 0) =>
        /\ outcome.kind \in {"result", "error"}
        /\ NetCalls <= MAX_RETRIES
        /\ Len(SleepDelays) = NetCalls - 1
        /\ SleepDelays = [i \in 1..(NetCalls - 1) |-> RETRY_DELAY_BASE * 2 ^ (i - 1)]
        /\ log[Len(log)].ev \in {"fail", "ok"}
        /\ Len(EventsOf("fail")) = MAX_RETRIES =>
               /\ SleepDelays = <<1000, 2000>>
               /\ log[Len(log)] = Event("fail", MAX_RETRIES, log[Len(log)].v)
               /\ outcome.kind = "error"

\* C28: a cleanup call ends with a result or an error after a bounded
\* number of steps, and it never sleeps after its last attempt: a call that
\* made k attempts slept k - 1 times, and when all 3 attempts fail it slept
\* 1000 ms and 2000 ms and raised the error with the third failure.
C28_TerminatesWithoutLastSleep ==
    /\ [](Len(log) <= MostSteps)
    /\ [](pc = "sleep" => Len(SleepDelays) = attempt /\ attempt < MAX_RETRIES)
    /\ []SleepsBetweenAttemptsOnly
    /\ (pc = "request" ~> pc = "done")

\* three failed attempts, two sleeps, and the error raised with the third
C28_Witness ==
    /\ pc = "done"
    /\ NetCalls = 3
    /\ Len(EventsOf("fail")) = 3
    /\ SleepDelays = <<1000, 2000>>
    /\ log[Len(log)].ev = "fail"
    /\ outcome.kind = "error"

-----------------------------------------------------------------------------
(* C27 *)

\* a step in which the live fetch of a model-list call fails
FetchFailureStep ==
    /\ returned = NoCall
    /\ returned' # NoCall
    /\ returned'[1].fetch = "fail"

\* C27: the failure notice is throttled, not starved: a fetch failure more
\* than 60 seconds after the notice shown last shows a notice (and that
\* notice becomes the one shown last); a failure whose notice is suppressed
\* leaves the time of the last notice as it was.
C27_ThrottledNotStarved ==
    [][FetchFailureStep =>
          IF now - lastErrorNoticeTime > 60 * 1000
          THEN /\ returned'[1].notice
               /\ lastErrorNoticeTime' = now
          ELSE /\ ~returned'[1].notice
               /\ lastErrorNoticeTime' = lastErrorNoticeTime]_vars

\* a failure exactly 60 seconds after a notice was suppressed and left the
\* time of that notice in place
C27_Witness ==
    /\ returned # NoCall
    /\ returned[1].fetch = "fail"
    /\ ~returned[1].notice
    /\ lastErrorNoticeTime = StartTime
    /\ now = StartTime + 60 * 1000

-----------------------------------------------------------------------------
(* C24 *)

\* C24: getAvailableModels is repeatable: a call that is served from the
\* cache right after another getAvailableModels call, with the same key and
\* nothing else in between, returns the list that call returned, element by
\* element; so also when that call had put the fallback list into the cache.
C24_Repeatable ==
    (/\ returned # NoCall
     /\ returned[1].op = "get"
     /\ returned[1].net = 0
     /\ isCacheValid(returned[1].cacheBefore, now)
     /\ previous # <<>>) =>
        returned[1].result = previous[1]

-----------------------------------------------------------------------------
(* C25 *)

\* the cache holds the static fallback list
IsFallbackCache(c) ==
    IF c = <<>> THEN FALSE ELSE c[1].models = fallbackCache(0)[1].models

\* a call has failed to fetch, or has found no credential where it looks
\* for one
FellBack(c) ==
    \/ c.fetch = "fail"
    \/ /\ BlankKey(c.key)
       /\ c.net = 0
       /\ c.op = "refresh" \/ AbsentOrExpired(c.cacheBefore, now)

\* a step in which a getAvailableModels call starts
GetStarts ==
    /\ returned = NoCall
    /\ \/ /\ returned' # NoCall
          /\ returned'[1].op = "get"
          /\ returned'[1].fetch = "none"
       \/ /\ Len(pending') = Len(pending) + 1
          /\ pending'[Len(pending')].op = "get"

\* C25: a failed live fetch, and a call that finds no credential, overwrite
\* the cache, whatever it held, with the fallback list stamped with the
\* current time; a getAvailableModels call that starts while that cache is
\* less than 24 hours old is served from it and sends no request, whatever
\* the key; and while that cache is less than 24 hours old the cache keeps
\* the fallback list until refreshModels is called or the cache is cleared.
C25_FallbackLocksIn ==
    /\ []((returned # NoCall /\ FellBack(returned[1])) =>
              modelCache = fallbackCache(now))
    /\ [][(/\ GetStarts
           /\ IsFallbackCache(modelCache)
           /\ isCacheValid(modelCache, now)) =>
              /\ returned' # NoCall
              /\ returned'[1].net = 0
              /\ Range(returned'[1].result) = Range(StaticFallback)
              /\ UNCHANGED <<modelCache, pending>>]_vars
    /\ [][(/\ IsFallbackCache(modelCache)
           /\ isCacheValid(modelCache, now')
           /\ ~IsFallbackCache(modelCache')) =>
              \/ modelCache' = <<>>
              \/ /\ returned' # NoCall
                 /\ returned'[1].op = "refresh"]_vars

-----------------------------------------------------------------------------
(* C26 *)

\* C26: of two model-list operations that overlap, the one that started
\* last wins: an operation that completes after an operation that started
\* later has written the cache leaves the cache as it finds it.
C26_LastStartedWins ==
    (returned # NoCall /\ returned[1].late) =>
        modelCache = returned[1].cacheBefore

-----------------------------------------------------------------------------
(* C23 *)

\* the ids of a list of model options
Ids(opts) == {opts[k].id : k \in 1..Len(opts)}

\* the step in which the refreshModels of the settings tab goes on with the
\* list ModelService.refreshModels returned
TabRefreshCompletes ==
    /\ returned # NoCall
    /\ returned[1].op = "refresh"
    /\ returned' = NoCall

\* C23: when the refreshModels of the settings tab completes with a list
\* that is not empty, the selected model is the id of a model of the list:
\* the one selected before if the list has it, else the first of the list;
\* and the settings are saved with that model and the cache as it is then.
C23_SelectionStaysValid ==
    [][(TabRefreshCompletes /\ returned[1].result # <<>>) =>
          /\ selectedModel' \in Ids(returned[1].result)
          /\ selectedModel \in Ids(returned[1].result) =>
                 selectedModel' = selectedModel
          /\ selectedModel \notin Ids(returned[1].result) =>
                 selectedModel' = returned[1].result[1].id
          /\ saved' = saveSettings(settingsKey', selectedModel', modelCache')
          /\ modelCache' = modelCache]_vars

\* a refresh has fetched a list without the model that was selected: the
\* first model of the sorted list is selected now, and saved with the cache
C23_Witness ==
    /\ returned = NoCall
    /\ modelCache # <<>>
    /\ modelCache[1].models = <<Opus, Haiku>>
    /\ selectedModel = Haiku.id
    /\ selectedModel # DEFAULT_MODEL
    /\ saved = saveSettings(settingsKey, Haiku.id, modelCache)


(***************************************************************************)
(* The cleanup command: what the user sees of a failure                    *)
(***************************************************************************)

\* the selection of the command was not valid
SelectionRejected == validateSelection(text) # <<>>

\* cleanupText threw into the catch block of the command
CallThrew == pc = "done" /\ outcome.kind = "error"

\* the notices shown are error notices
ErrorNotices == {k \in 1..Len(shown) : shown[k].kind = "error"}

\* C22 as stated: a command that has returned after any failure, a selection
\* that is not valid included, has shown exactly one error notice and has
\* logged the error.
C22_AsStated ==
    (cmd = "returned" /\ (SelectionRejected \/ CallThrew))
        => (Cardinality(ErrorNotices) = 1 /\ Len(shown) = 1 /\ logged >= 1)

\* C22 (amended): a command that has returned after a failure has shown
\* exactly one notice, an error notice: the validation message of a
\* selection that is not valid, the notice of its kind for an error
\* cleanupText threw.  The thrown error is logged once; a selection that is
\* not valid is not logged.
C22_OneNoticePerFailure ==
    /\ (cmd = "returned" /\ SelectionRejected)
           => /\ shown = <<Notice("error", validateSelection(text)[1])>>
              /\ logged = 0
    /\ (cmd = "returned" /\ CallThrew)
           => /\ shown = <<Notice("error", noticeFor(outcome))>>
              /\ logged = 1
              /\ outcome.name = "ApiKeyError"
                     => shown[1].message =
                            <<"API key error. Please check your settings.">>
              /\ outcome.name = "TextTooLongError"
                     => shown[1].message = outcome.message
              /\ outcome.name \notin {"ApiKeyError", "TextTooLongError"}
                     => shown[1].message = <<"Cleanup failed: ">> \o outcome.message

\* a command has returned after every attempt of its call failed: one
\* "Cleanup failed" notice, one log entry
C22_Witness ==
    /\ cmd = "returned"
    /\ CallThrew
    /\ NetCalls = MAX_RETRIES
    /\ Len(shown) = 1
    /\ shown[1].kind = "error"
    /\ shown[1].message[1] = "Cleanup failed: "
    /\ logged = 1

\* C30: the command never throws.  After a failure the document is not
\* changed and no loading notice is left on the screen; the document is
\* changed only by a call that returned a result, whose cleaned text is not
\* empty, and what is inserted is the formatted result.
C30_FailureLeavesDocument ==
    /\ cmd \in {"idle", "awaiting", "returned"}
    /\ (cmd = "returned" /\ (SelectionRejected \/ CallThrew))
           => (doc = <<>> /\ loading # "shown")
    /\ cmd = "returned" => loading # "shown"
    /\ doc # <<>>
           => /\ cmd = "returned"
              /\ pc = "done"
              /\ outcome.kind = "result"
              /\ outcome.cleanedText # <<>>
              /\ doc = <<formatCleanupResult(outcome)>>

\* a command has returned after the response of its call could not be
\* used: the document is as it was, the loading notice is hidden
C30_Witness ==
    /\ cmd = "returned"
    /\ CallThrew
    /\ NetCalls = 1
    /\ response # <<>>
    /\ doc = <<>>
    /\ loading = "hidden"


(***************************************************************************)
(* The connection test                                                     *)
(***************************************************************************)

TestReturned == test.pc = "done"

\* C21 as stated: a test called with a missing or empty credential returns
\* the "invalid key format" outcome, whichever test was called.
C21_AsStated ==
    (TestReturned /\ ~validateApiKey(test.key))
        => (test.outcome.message = MsgTestKeyFormat /\ test.sent = 0)

\* C21 (amended): the connection test never throws.  A test called with a
\* missing or empty credential sends nothing and returns a failure of its
\* own: the client's test the "invalid key format" outcome, the service's
\* test "API key is not configured".  A test called with a credential sends
\* exactly one request; every failure of it is returned with success = false
\* and the failure's message, and a success carries the model id of the
\* response, the round-trip time and the token counts.
C21_TestNeverThrows ==
    /\ ~test.threw
    /\ test.sent <= 1
    /\ test.pc = "request" => (test.sent = 1 /\ validateApiKey(test.key))
    /\ (TestReturned /\ ~validateApiKey(test.key))
           => /\ test.sent = 0
              /\ test.via = "client"
                     => test.outcome = TestFailure(MsgTestKeyFormat,
                                                   <<"INVALID_KEY_FORMAT">>)
              /\ test.via = "service"
                     => test.outcome = TestFailure(MsgTestNotConfigured, <<>>)
    /\ (TestReturned /\ validateApiKey(test.key))
           => /\ test.sent = 1
              /\ test.outcome.message \notin {MsgTestKeyFormat, MsgTestNotConfigured}
              /\ ~test.outcome.success
                     => /\ test.outcome.message # <<>>
                        /\ test.outcome.details = <<>>
                        /\ test.outcome.error = <<"CONNECTION_FAILED">>
                        /\ \/ \E st \in FailStatuses : \E body \in BodiesOf(st) :
                                  test.outcome.message = makeRequestError(st, body)
                           \/ test.outcome.message \in {MsgNoUsage, MsgNotJson}
              /\ test.outcome.success
                     => /\ Len(test.outcome.details) = 1
                        /\ test.outcome.details[1].model \in EchoedModels
                        /\ test.outcome.details[1].responseTime \in RoundTrips
                        /\ test.outcome.details[1].inputTokens > 0
                        /\ test.outcome.details[1].outputTokens > 0

\* a test called with a credential has returned the failure of its request:
\* the provider answered 401
C21_Witness ==
    /\ TestReturned
    /\ validateApiKey(test.key)
    /\ test.sent = 1
    /\ ~test.outcome.success
    /\ test.outcome.message = MsgRequestFailed(401, "invalid API key provided")

=============================================================================
